---- MODULE Spec2Model ----
(***************************************************************************)
(* A model of the KaTeX recursive-descent parser (Parser.js, kept in the   *)
(* repository as src/unnamed/part_000) together with the \zInput function  *)
(* (src/src/functions/zInput.js).                                          *)
(*                                                                         *)
(* A token text is a sequence of one-character strings, so that string     *)
(* indexing, concatenation and regular-expression tests are computed and   *)
(* not assumed.  A token is a record [text, loc]; loc is the pair of the   *)
(* indices, in the expander's output, of the first and the last token it   *)
(* spans, and stands for its source range.                                 *)
(*                                                                         *)
(* Every parser method is an operator from a parser state to a parser      *)
(* state (methods that return a value give [st, val]).  A ParseError is    *)
(* the field err of the state: once it is set every caller returns at once *)
(* with the state as the throw left it, which is how the exception unwinds *)
(* the JavaScript stack (the parser has no try/catch/finally).             *)
(***************************************************************************)
EXTENDS Integers, Sequences, FiniteSets, TLC

VARIABLES
    ps,     \* the Parser object together with its gullet (MacroExpander)
    nodes,  \* a sibling list of nodes, which formLigatures rewrites in place
    call    \* the last method called: its name, its arguments, the state before it
            \* and the value it returned

vars == <<ps, nodes, call>>

(***************************************************************************)
(* Bounds of the model.                                                    *)
(***************************************************************************)
MaxLen == 4         \* tokens in a stream given to parse
MaxAtomLen == 4     \* tokens in a stream given to parseAtom
MaxGroupLen == 3    \* tokens in a stream given to parseGroup
MaxUrlLen == 3      \* tokens in a stream given to parseUrlGroup
MaxLigLen == 4      \* nodes in a list given to formLigatures
MaxRegexLen == 3    \* tokens in a stream given to parseRegexGroup
MaxLexLen == 3      \* tokens in a stream driven through fetch/consume/expect
MaxCalls == 5       \* fetch/consume/expect calls made on one stream
MaxFuncLen == 3     \* tokens of a stream parseFunction reads
MaxScriptLen == 6   \* tokens of a stream of scripts parseAtom reads
MaxArgsLen == 4     \* tokens of a stream parseArguments reads
MaxSizeLen == 5     \* tokens of a stream parseSizeGroup reads
MaxZSizeLen == 3    \* tokens of the bracketed size of a \zInput
MaxZRawLen == 4     \* tokens of the raw argument of a \zInput
MaxInfixLen == 4    \* nodes in a list given to handleInfixNodes
MaxStringLen == 6   \* tokens of a stream parseStringGroup reads
MaxLimitsLen == 4   \* tokens of a stream of operators and limit controls
MaxCloseLen == 5   \* tokens of a stream of group openers and closers
MaxStepsLen == 4   \* tokens of a stream the loops are run on, pass by pass

(***************************************************************************)
(* Token texts.                                                            *)
(***************************************************************************)
EOF == <<"E", "O", "F">>
LBRACE == <<"{">>
RBRACE == <<"}">>
LBRACKET == <<"[">>
RBRACKET == <<"]">>
SPACE == <<" ">>
CARET == <<"^">>
UNDERSCORE == <<"_">>
PRIME == <<"'">>
BACKTICK == <<"grave">>     \* the character U+0060, which a TLA+ string cannot hold
HYPHEN == <<"-">>
PERCENT == <<"%">>
LETTER_X == <<"x">>
BEGINGROUP == <<"\\", "b", "e", "g", "i", "n", "g", "r", "o", "u", "p">>
ENDGROUP == <<"\\", "e", "n", "d", "g", "r", "o", "u", "p">>
END == <<"\\", "e", "n", "d">>
RIGHT == <<"\\", "r", "i", "g", "h", "t">>
AMPERSAND == <<"&">>
LIMITS == <<"\\", "l", "i", "m", "i", "t", "s">>
NOLIMITS == <<"\\", "n", "o", "l", "i", "m", "i", "t", "s">>
RELAX == <<"\\", "r", "e", "l", "a", "x">>
PRIMECMD == <<"\\", "p", "r", "i", "m", "e">>

NoToken == [none |-> TRUE]
NoError == [none |-> TRUE]
Null == [type |-> "null"]

Token(text, loc) == [text |-> text, loc |-> loc]

(***************************************************************************)
(* ParseError(message, token): msg is the fixed part of the message, arg   *)
(* the text spliced into it, token the token it is attributed to.          *)
(***************************************************************************)
ParseError(msg, arg, token) == [msg |-> msg, arg |-> arg, token |-> token]

Throw(st, msg, arg, token) == [st EXCEPT !.err = ParseError(msg, arg, token)]

Failed(st) == st.err # NoError

Ret(st, val) == [st |-> st, val |-> val]

(***************************************************************************)
(* The gullet.  expandNextToken hands out the stream's tokens in order and *)
(* the EOF sentinel from the end on; switchMode, beginGroup, endGroup and  *)
(* lexer.setCatcode are recorded as the expander sees them.  pulls is the  *)
(* list of the tokens handed out, each with the mode the parser and the    *)
(* expander were in.                                                       *)
(***************************************************************************)
EofToken(toks) == Token(EOF, <<Len(toks) + 1, Len(toks) + 1>>)

expandNextToken(st) ==
    LET g == st.gullet
        tok == IF g.pos < Len(g.toks) THEN Token(g.toks[g.pos + 1], <<g.pos + 1, g.pos + 1>>)
               ELSE EofToken(g.toks)
        pull == [token |-> tok, mode |-> st.mode, gmode |-> g.mode]
    IN  Ret([st EXCEPT !.gullet.pos = IF g.pos < Len(g.toks) THEN g.pos + 1 ELSE g.pos,
                       !.gullet.pulls = Append(g.pulls, pull)],
            tok)

gulletSwitchMode(st, newMode) == [st EXCEPT !.gullet.mode = newMode]

beginGroup(st) ==
    [st EXCEPT !.gullet.depth = st.gullet.depth + 1,
               !.gullet.groups = Append(st.gullet.groups, "begin")]

endGroup(st) ==
    [st EXCEPT !.gullet.depth = st.gullet.depth - 1,
               !.gullet.groups = Append(st.gullet.groups, "end")]

setCatcode(st, code) == [st EXCEPT !.gullet.catcode = code]

macrosSet(st) == [st EXCEPT !.gullet.colorMacro = TRUE]

NewGullet(toks, mode) ==
    [toks |-> toks, pos |-> 0, mode |-> mode, depth |-> 0, groups |-> <<>>,
     catcode |-> 14, colorMacro |-> FALSE, pulls |-> <<>>]

(***************************************************************************)
(* constructor                                                             *)
(***************************************************************************)
NewParser(toks, settings) ==
    [mode |-> "math",
     gullet |-> NewGullet(toks, "math"),
     settings |-> settings,
     leftrightDepth |-> 0,
     nextToken |-> NoToken,
     err |-> NoError]

DefaultSettings ==
    [globalGroup |-> FALSE, colorIsTextColor |-> FALSE, throwOnError |-> TRUE,
     strict |-> FALSE, errorColor |-> "#cc0000"]

(***************************************************************************)
(* fetch, consume, expect, switchMode                                      *)
(***************************************************************************)
fetchPullsAlways(st) ==
    LET fill(r) == Ret([r.st EXCEPT !.nextToken = r.val], r.val)
    IN  fill(expandNextToken(st))

fetch(st) ==
    LET fill(r) == Ret([r.st EXCEPT !.nextToken = r.val], r.val)
    IN  IF st.nextToken = NoToken THEN fill(expandNextToken(st))
        ELSE Ret(st, st.nextToken)

consume(st) == [st EXCEPT !.nextToken = NoToken]

expect(st, text, doConsume) ==
    LET check(f) ==
          IF f.val.text # text
          THEN Throw(f.st, "Expected, got", <<text, f.val.text>>, f.val)
          ELSE IF doConsume THEN consume(f.st) ELSE f.st
    IN  check(fetch(st))

switchMode(st, newMode) == gulletSwitchMode([st EXCEPT !.mode = newMode], newMode)

(***************************************************************************)
(* Token.range(endToken, text) and SourceLocation.range(first, second)     *)
(***************************************************************************)
LocRange(first, last) == <<first.loc[1], last.loc[2]>>

TokenRange(first, last, text) == Token(text, LocRange(first, last))

(***************************************************************************)
(* Character classes of the regular expressions the parser uses.           *)
(***************************************************************************)
Digits == {"0", "1", "2", "3", "4", "5", "6", "7", "8", "9"}
HexLetters == {"a", "b", "c", "d", "e", "f"}
LowerLetters ==
    {"a", "b", "c", "d", "e", "f", "g", "h", "i", "j", "k", "l", "m", "n", "o",
     "p", "q", "r", "s", "t", "u", "v", "w", "x", "y", "z"}
UpperLetters ==
    {"A", "B", "C", "D", "E", "F", "G", "H", "I", "J", "K", "L", "M", "N", "O",
     "P", "Q", "R", "S", "T", "U", "V", "W", "X", "Y", "Z"}
Letters == LowerLetters \cup UpperLetters
BraceChars == {"{", "}", "[", "]"}

RECURSIVE Concat(_)
Concat(texts) == IF texts = <<>> THEN <<>> ELSE Head(texts) \o Concat(Tail(texts))

\* the first index j >= i with s[j] outside class, Len(s) + 1 if there is none
RECURSIVE SkipWhile(_, _, _)
SkipWhile(s, i, class) ==
    IF i <= Len(s) /\ s[i] \in class THEN SkipWhile(s, i + 1, class) ELSE i

\* like SkipWhile, taking at most n characters
SkipUpTo(s, i, class, n) ==
    LET j == SkipWhile(s, i, class) IN IF j - i > n THEN i + n ELSE j

(***************************************************************************)
(* The registry and the symbol tables are read-only collaborators of the   *)
(* parser (functions.js, symbols.js, MacroExpander.js, units.js): a small  *)
(* table of each stands for them, with the entries of KaTeX.               *)
(***************************************************************************)
OVER == <<"\\", "o", "v", "e", "r">>
ABOVE == <<"\\", "a", "b", "o", "v", "e">>
FRAC == <<"\\", "f", "r", "a", "c">>
ABOVEFRAC == <<"\\", "\\", "a", "b", "o", "v", "e", "f", "r", "a", "c">>
TEXT == <<"\\", "t", "e", "x", "t">>
SQRT == <<"\\", "s", "q", "r", "t">>
SUM == <<"\\", "s", "u", "m">>
KERN == <<"\\", "k", "e", "r", "n">>
HREF == <<"\\", "h", "r", "e", "f">>
HBOX == <<"\\", "h", "b", "o", "x">>
TEXTCOLOR == <<"\\", "t", "e", "x", "t", "c", "o", "l", "o", "r">>
OPERATORNAME == <<"\\", "o", "p", "e", "r", "a", "t", "o", "r", "n", "a", "m", "e">>
OPERATORNAMEWITHLIMITS ==
    <<"\\", "o", "p", "e", "r", "a", "t", "o", "r", "n", "a", "m", "e",
      "w", "i", "t", "h", "l", "i", "m", "i", "t", "s">>
ZINPUT == <<"\\", "z", "I", "n", "p", "u", "t">>
FOO == <<"\\", "f", "o", "o">>

FunctionSpec(type, numArgs, numOptionalArgs, argTypes, greediness, allowedInText, allowedInMath, infix) ==
    [type |-> type, numArgs |-> numArgs, numOptionalArgs |-> numOptionalArgs,
     argTypes |-> argTypes, greediness |-> greediness,
     allowedInText |-> allowedInText, allowedInMath |-> allowedInMath,
     infix |-> infix, handler |-> TRUE]

zInputSpec == FunctionSpec("zInput", 1, 1, <<"size", "raw">>, 1, TRUE, TRUE, FALSE)

functions ==
    (OVER :> FunctionSpec("infix", 0, 0, <<>>, 1, FALSE, TRUE, TRUE)) @@
    (ABOVE :> FunctionSpec("infix", 1, 0, <<"size">>, 1, FALSE, TRUE, TRUE)) @@
    (FRAC :> FunctionSpec("genfrac", 2, 0, <<>>, 2, FALSE, TRUE, FALSE)) @@
    (ABOVEFRAC :> FunctionSpec("genfrac", 3, 0, <<"math", "size", "math">>, 1,
                               FALSE, TRUE, FALSE)) @@
    (TEXT :> FunctionSpec("text", 1, 0, <<"text">>, 2, TRUE, TRUE, FALSE)) @@
    (SQRT :> FunctionSpec("sqrt", 1, 1, <<>>, 1, FALSE, TRUE, FALSE)) @@
    (SUM :> FunctionSpec("op", 0, 0, <<>>, 1, FALSE, TRUE, FALSE)) @@
    (OPERATORNAME :> FunctionSpec("operatorname", 1, 0, <<>>, 1, FALSE, TRUE, FALSE)) @@
    (OPERATORNAMEWITHLIMITS :> FunctionSpec("operatorname", 1, 0, <<>>, 1,
                                            FALSE, TRUE, FALSE)) @@
    (KERN :> FunctionSpec("kern", 1, 0, <<"size">>, 1, TRUE, TRUE, FALSE)) @@
    (HREF :> FunctionSpec("href", 2, 0, <<"url", "original">>, 1, TRUE, TRUE, FALSE)) @@
    (HBOX :> FunctionSpec("hbox", 1, 0, <<"hbox">>, 1, TRUE, TRUE, FALSE)) @@
    (TEXTCOLOR :> FunctionSpec("color", 2, 0, <<"color", "original">>, 3,
                               TRUE, TRUE, FALSE)) @@
    (ZINPUT :> zInputSpec)

IsFunction(text) == text \in DOMAIN functions

implicitCommands == {RELAX, CARET, UNDERSCORE, LIMITS, NOLIMITS}

\* symbols[mode][text].group
symbols ==
    [math |-> (LETTER_X :> "mathord") @@ (<<"1">> :> "textord") @@
              (HYPHEN :> "bin") @@ (LBRACKET :> "open") @@ (RBRACKET :> "close") @@
              (<<"p">> :> "mathord") @@ (<<"t">> :> "mathord"),
     text |-> (LETTER_X :> "textord") @@ (<<"1">> :> "textord") @@
              (HYPHEN :> "textord") @@ (LBRACKET :> "textord") @@
              (RBRACKET :> "textord") @@ (PRIME :> "textord") @@
              (BACKTICK :> "textord") @@ (SPACE :> "spacing") @@
              (<<"p">> :> "textord") @@ (<<"t">> :> "textord")]

ATOMS == {"bin", "close", "inner", "open", "punct", "rel"}

validUnits == {<<"e", "m">>, <<"e", "x">>, <<"m", "u">>, <<"p", "t">>, <<"m", "m">>,
               <<"c", "m">>, <<"i", "n">>, <<"b", "p">>, <<"p", "c">>, <<"d", "d">>,
               <<"c", "c">>, <<"n", "d">>, <<"n", "c">>, <<"s", "p">>, <<"p", "x">>}

endOfExpression == {RBRACE, ENDGROUP, END, RIGHT, AMPERSAND}

endOfGroup == (LBRACKET :> RBRACKET) @@ (LBRACE :> RBRACE) @@ (BEGINGROUP :> ENDGROUP)

SUPSUB_GREEDINESS == 1

(***************************************************************************)
(* Nodes.  A parse node is a record with a type; an absent node (null or   *)
(* undefined) is Null.  JavaScript indices start at 0: At(a, i) is a[i].   *)
(***************************************************************************)
Undefined == <<>>

At(a, i) == a[i + 1]

Slice(a, from, to) == SubSeq(a, from + 1, to)

Splice(a, i, count, node) == Slice(a, 0, i) \o <<node>> \o Slice(a, i + count, Len(a))

NodeText(node) == IF "text" \in DOMAIN node THEN node.text ELSE Undefined

NodeLoc(node) == IF "loc" \in DOMAIN node THEN node.loc ELSE Undefined

\* SourceLocation.range(first, second) on two nodes or tokens
SourceLocationRange(first, second) ==
    IF NodeLoc(first) = Undefined \/ NodeLoc(second) = Undefined THEN Undefined
    ELSE <<NodeLoc(first)[1], NodeLoc(second)[2]>>

SetField(node, name, value) ==
    [k \in DOMAIN node \cup {name} |-> IF k = name THEN value ELSE node[k]]

(***************************************************************************)
(* formLigatures(group): the loop of lines 856-888, on a copy of the list. *)
(***************************************************************************)
Ligature(first, last, text) ==
    [type |-> "textord", mode |-> "text", loc |-> SourceLocationRange(first, last),
     text |-> text]

HyphenStep(group, i, n) ==
    LET a == At(group, i)
    IN  IF NodeText(a) = HYPHEN /\ NodeText(At(group, i + 1)) = HYPHEN
        THEN IF i + 1 < n /\ NodeText(At(group, i + 2)) = HYPHEN
             THEN [group |-> Splice(group, i, 3,
                                     Ligature(a, At(group, i + 2),
                                              HYPHEN \o HYPHEN \o HYPHEN)),
                   n |-> n - 2]
             ELSE [group |-> Splice(group, i, 2,
                                     Ligature(a, At(group, i + 1), HYPHEN \o HYPHEN)),
                   n |-> n - 1]
        ELSE [group |-> group, n |-> n]

\* v is the text of the node that stood at i when the iteration began
QuoteStepShortensTwice(group, i, n, a, v) ==
    IF (v = PRIME \/ v = BACKTICK) /\ NodeText(At(group, i + 1)) = v
    THEN [group |-> Splice(group, i, 2, Ligature(a, At(group, i + 1), v \o v)),
          n |-> n - 2]
    ELSE [group |-> group, n |-> n]

QuoteStep(group, i, n, a, v) ==
    IF (v = PRIME \/ v = BACKTICK) /\ NodeText(At(group, i + 1)) = v
    THEN [group |-> Splice(group, i, 2, Ligature(a, At(group, i + 1), v \o v)),
          n |-> n - 1]
    ELSE [group |-> group, n |-> n]

RECURSIVE formLigaturesLoop(_, _, _)
formLigaturesLoop(group, i, n) ==
    IF ~(i < n) THEN group
    ELSE LET a == At(group, i)
             v == NodeText(a)
             h == HyphenStep(group, i, n)
             q == QuoteStep(h.group, i, h.n, a, v)
         IN  formLigaturesLoop(q.group, i + 1, q.n)

formLigatures(group) == formLigaturesLoop(group, 0, Len(group) - 1)

(***************************************************************************)
(* formatUnsupportedCmd(text)                                              *)
(***************************************************************************)
TextordArrayOneNode(text) ==
    <<[type |-> "textord", mode |-> "text", text |-> text]>>

TextordArray(text) ==
    [i \in 1..Len(text) |-> [type |-> "textord", mode |-> "text", text |-> <<text[i]>>]]

formatUnsupportedCmd(st, text) ==
    LET textNode == [type |-> "text", mode |-> st.mode, body |-> TextordArray(text)]
    IN  [type |-> "color", mode |-> st.mode, color |-> st.settings.errorColor,
         body |-> <<textNode>>]

(***************************************************************************)
(* consumeSpaces                                                           *)
(***************************************************************************)
RECURSIVE consumeSpaces(_)
consumeSpaces(st) ==
    LET skip(f) == IF f.val.text = SPACE THEN consumeSpaces(consume(f.st)) ELSE f.st
    IN  skip(fetch(st))

(***************************************************************************)
(* Function handlers.  \zInput's is the one of zInput.js; the others stand *)
(* for the handlers of the registry: each builds its node from the         *)
(* arguments it is given and leaves the parser alone.                      *)
(***************************************************************************)
ordargument(arg) == IF arg.type = "ordgroup" THEN arg.body ELSE <<arg>>

DigitValue(c) ==
    CASE c = "0" -> 0 [] c = "1" -> 1 [] c = "2" -> 2 [] c = "3" -> 3 [] c = "4" -> 4
      [] c = "5" -> 5 [] c = "6" -> 6 [] c = "7" -> 7 [] c = "8" -> 8 [] c = "9" -> 9

RECURSIVE DigitsValue(_)
DigitsValue(ds) ==
    IF ds = <<>> THEN 0 ELSE 10 * DigitsValue(SubSeq(ds, 1, Len(ds) - 1)) + DigitValue(ds[Len(ds)])

\* parseInt(string): leading white space, a sign, then the longest run of digits
parseInt(str) ==
    LET i == SkipWhile(str, 1, {" "})
        j == IF i <= Len(str) /\ str[i] \in {"-", "+"} THEN i + 1 ELSE i
        k == SkipWhile(str, j, Digits)
    IN  IF k = j THEN [nan |-> TRUE, value |-> 0]
        ELSE [nan |-> FALSE,
              value |-> IF j > i /\ str[i] = "-" THEN 0 - DigitsValue(SubSeq(str, j, k - 1))
                        ELSE DigitsValue(SubSeq(str, j, k - 1))]

zInputDefaultWidth == [number |-> [num |-> 17, den |-> 10], unit |-> <<"e", "m">>]

zInputHandlerDefaultWidth(st, args, optArgs) ==
    [type |-> "zInput", mode |-> st.mode, index |-> parseInt(args[1].string),
     width |-> zInputDefaultWidth]

zInputHandler(st, args, optArgs) ==
    LET width == IF optArgs[1] # Null THEN optArgs[1].value ELSE zInputDefaultWidth
        index == parseInt(args[1].string)
    IN  [type |-> "zInput", mode |-> st.mode, index |-> index, width |-> width]

handler(st, funcName, args, optArgs, token, breakOnTokenText) ==
    LET type == functions[funcName].type
        node ==
          CASE type = "zInput" -> zInputHandler(st, args, optArgs)
            [] type = "infix" /\ funcName = OVER ->
                 [type |-> "infix", mode |-> st.mode, replaceWith |-> FRAC,
                  token |-> token]
            [] type = "infix" /\ funcName = ABOVE ->
                 [type |-> "infix", mode |-> st.mode, replaceWith |-> ABOVEFRAC,
                  size |-> args[1].value, token |-> token]
            [] type = "genfrac" /\ funcName = FRAC ->
                 [type |-> "genfrac", mode |-> st.mode, numer |-> args[1],
                  denom |-> args[2]]
            [] type = "genfrac" /\ funcName = ABOVEFRAC ->
                 [type |-> "genfrac", mode |-> st.mode, numer |-> args[1],
                  denom |-> args[3], barSize |-> args[2].size]
            [] type = "text" ->
                 [type |-> "text", mode |-> st.mode, body |-> ordargument(args[1])]
            [] type = "sqrt" ->
                 [type |-> "sqrt", mode |-> st.mode, body |-> args[1],
                  index |-> optArgs[1]]
            [] type = "op" ->
                 [type |-> "op", mode |-> st.mode, limits |-> TRUE,
                  parentIsSupSub |-> FALSE, symbol |-> TRUE, name |-> funcName]
            [] type = "operatorname" ->
                 [type |-> "operatorname", mode |-> st.mode,
                  body |-> ordargument(args[1]),
                  alwaysHandleSupSub |-> funcName = OPERATORNAMEWITHLIMITS,
                  limits |-> FALSE, parentIsSupSub |-> FALSE]
            [] type = "kern" ->
                 [type |-> "kern", mode |-> st.mode, dimension |-> args[1].value]
            [] type = "href" ->
                 [type |-> "href", mode |-> st.mode, href |-> args[1].url,
                  body |-> ordargument(args[2])]
            [] type = "hbox" ->
                 [type |-> "hbox", mode |-> st.mode, body |-> ordargument(args[1])]
            [] type = "color" ->
                 [type |-> "color", mode |-> st.mode, color |-> args[1].color,
                  body |-> ordargument(args[2])]
    IN  Ret(st, node)

(***************************************************************************)
(* callFunction                                                            *)
(***************************************************************************)
callFunction(st, name, args, optArgs, token, breakOnTokenText) ==
    IF IsFunction(name) /\ functions[name].handler
    THEN handler(st, name, args, optArgs, token, breakOnTokenText)
    ELSE Ret(Throw(st, "No function handler for", name, NoToken), Null)

(***************************************************************************)
(* handleInfixNodes(body).  overIndex is the JavaScript index, -1 for none.*)
(***************************************************************************)
RECURSIVE infixScanKeepsLast(_, _, _, _)
infixScanKeepsLast(body, i, overIndex, funcName) ==
    IF ~(i < Len(body)) THEN [overIndex |-> overIndex, funcName |-> funcName, second |-> -1]
    ELSE IF At(body, i).type = "infix"
         THEN infixScanKeepsLast(body, i + 1, i, At(body, i).replaceWith)
         ELSE infixScanKeepsLast(body, i + 1, overIndex, funcName)

RECURSIVE infixScan(_, _, _, _)
infixScan(body, i, overIndex, funcName) ==
    IF ~(i < Len(body)) THEN [overIndex |-> overIndex, funcName |-> funcName, second |-> -1]
    ELSE IF At(body, i).type = "infix"
         THEN IF overIndex # -1
              THEN [overIndex |-> overIndex, funcName |-> funcName, second |-> i]
              ELSE infixScan(body, i + 1, i, At(body, i).replaceWith)
         ELSE infixScan(body, i + 1, overIndex, funcName)

infixSideAlwaysWrapped(st, sideBody) ==
    [type |-> "ordgroup", mode |-> st.mode, body |-> sideBody]

infixSide(st, sideBody) ==
    IF Len(sideBody) = 1 /\ sideBody[1].type = "ordgroup" THEN sideBody[1]
    ELSE [type |-> "ordgroup", mode |-> st.mode, body |-> sideBody]

handleInfixNodes(st, body) ==
    LET wrap(r) == IF Failed(r.st) THEN r ELSE Ret(r.st, <<r.val>>)
        rewrite(overIndex, funcName, numerNode, denomNode) ==
          IF funcName = ABOVEFRAC
          THEN wrap(callFunction(st, funcName,
                                 <<numerNode, At(body, overIndex), denomNode>>,
                                 <<>>, NoToken, Undefined))
          ELSE wrap(callFunction(st, funcName, <<numerNode, denomNode>>,
                                 <<>>, NoToken, Undefined))
        found(scan) ==
          IF scan.second # -1
          THEN Ret(Throw(st, "only one infix operator per group", <<>>,
                         At(body, scan.second).token), Null)
          ELSE IF scan.overIndex # -1 /\ scan.funcName # Undefined
          THEN rewrite(scan.overIndex, scan.funcName,
                       infixSide(st, Slice(body, 0, scan.overIndex)),
                       infixSide(st, Slice(body, scan.overIndex + 1, Len(body))))
          ELSE Ret(st, body)
    IN  found(infixScan(body, 0, -1, Undefined))

(***************************************************************************)
(* The regular expressions of the parser, each computed on the characters. *)
(***************************************************************************)
\* /[^{}[\]]/.test(text)
HasNonBraceChar(text) == \E i \in 1..Len(text) : text[i] \notin BraceChars

\* /^[-+]? *(?:$|\d+|\d+\.\d*|\.\d*) *[a-z]{0,2} *$/.test(str)
SizeRegexTest(str) ==
    LET n == Len(str)
        i0 == IF 1 <= n /\ str[1] \in {"-", "+"} THEN 2 ELSE 1
        i1 == SkipWhile(str, i0, {" "})
        d1 == SkipWhile(str, i1, Digits)
        d2 == IF d1 <= n /\ str[d1] = "." THEN SkipWhile(str, d1 + 1, Digits) ELSE d1
        i3 == SkipWhile(str, d2, {" "})
        i4 == SkipUpTo(str, i3, LowerLetters, 2)
        i5 == SkipWhile(str, i4, {" "})
    IN  IF i1 > n THEN TRUE                 \* the alternative $
        ELSE IF d2 = i1 THEN FALSE          \* neither a digit nor a point
        ELSE i5 > n

\* a regular expression that is not closed under prefixes: /^(?:x|x-x)$/
PairRegexTest(str) == str = <<"x">> \/ str = <<"x", "-", "x">>

RegexTest(regex, str) ==
    CASE regex = "size" -> SizeRegexTest(str)
      [] regex = "pair" -> PairRegexTest(str)

\* /([-+]?) *(\d+(?:\.\d*)?|\.\d+) *([a-z]{2})/ matched at index i of str
SizeMatchAt(str, i) ==
    LET n == Len(str)
        i0 == IF i <= n /\ str[i] \in {"-", "+"} THEN i + 1 ELSE i
        i1 == SkipWhile(str, i0, {" "})
        d1 == SkipWhile(str, i1, Digits)
        d2 == IF d1 > i1
              THEN IF d1 <= n /\ str[d1] = "." THEN SkipWhile(str, d1 + 1, Digits) ELSE d1
              ELSE IF d1 <= n /\ str[d1] = "." /\ SkipWhile(str, d1 + 1, Digits) > d1 + 1
                   THEN SkipWhile(str, d1 + 1, Digits)
                   ELSE i1
        i3 == SkipWhile(str, d2, {" "})
        ok == d2 > i1 /\ i3 + 1 <= n /\ str[i3] \in LowerLetters
                      /\ str[i3 + 1] \in LowerLetters
    IN  [ok |-> ok,
         sign |-> SubSeq(str, i, i0 - 1),
         magnitude |-> SubSeq(str, i1, d2 - 1),
         unit |-> IF ok THEN SubSeq(str, i3, i3 + 1) ELSE <<>>]

\* exec: the leftmost match; ok is FALSE when there is none
SizeExec(str) ==
    LET starts == {i \in 1..Len(str) : SizeMatchAt(str, i).ok}
    IN  IF starts = {} THEN [ok |-> FALSE, sign |-> <<>>, magnitude |-> <<>>, unit |-> <<>>]
        ELSE SizeMatchAt(str, CHOOSE i \in starts : \A j \in starts : i <= j)

RECURSIVE Pow10(_)
Pow10(k) == IF k = 0 THEN 1 ELSE 10 * Pow10(k - 1)

RECURSIVE Reduce10(_, _)
Reduce10(num, den) ==
    IF den > 1 /\ num % 10 = 0 THEN Reduce10(num \div 10, den \div 10)
    ELSE [num |-> num, den |-> den]

\* +(sign + magnitude): the number as a fraction num/den, den a power of ten
ToNumber(sign, magnitude) ==
    LET dot == SkipWhile(magnitude, 1, Digits)
        whole == SubSeq(magnitude, 1, dot - 1)
        frac == SubSeq(magnitude, dot + 1, Len(magnitude))
        abs == Reduce10(DigitsValue(whole \o frac), Pow10(Len(frac)))
    IN  IF sign = <<"-">> THEN [num |-> 0 - abs.num, den |-> abs.den] ELSE abs

validUnit(data) == data.unit \in validUnits

\* /^(#[a-f0-9]{3}|#?[a-f0-9]{6}|[a-z]+)$/i.test(str)
HexChars == Digits \cup HexLetters \cup {"A", "B", "C", "D", "E", "F"}

AllIn(str, from, class) == \A i \in from..Len(str) : str[i] \in class

ColorRegexTest(str) ==
    \/ Len(str) = 4 /\ str[1] = "#" /\ AllIn(str, 2, HexChars)
    \/ Len(str) = 7 /\ str[1] = "#" /\ AllIn(str, 2, HexChars)
    \/ Len(str) = 6 /\ AllIn(str, 1, HexChars)
    \/ Len(str) >= 1 /\ AllIn(str, 1, Letters)

\* /^[0-9a-f]{6}$/i.test(color)
SixHexTest(str) == Len(str) = 6 /\ AllIn(str, 1, HexChars)

\* text.replace(/\\([#$%&~_^{}])/g, '$1')
UrlEscaped == {"#", "$", "%", "&", "~", "_", "^", "{", "}"}

RECURSIVE UrlUnescape(_)
UrlUnescape(str) ==
    IF str = <<>> THEN <<>>
    ELSE IF Len(str) >= 2 /\ str[1] = "\\" /\ str[2] \in UrlEscaped
         THEN <<str[2]>> \o UrlUnescape(SubSeq(str, 3, Len(str)))
         ELSE <<str[1]>> \o UrlUnescape(Tail(str))

(***************************************************************************)
(* parseStringGroup(modeName, optional, raw).  The value is a token, Null  *)
(* for the null it returns when an optional group is absent.               *)
(***************************************************************************)
RECURSIVE parseStringGroupLoopNoNesting(_, _, _, _, _, _, _, _)
parseStringGroupLoopNoNesting(st, modeName, groupBegin, groupEnd, raw, firstToken, lastToken, acc) ==
    \* acc = [str, nested]
    LET nesting(text) == IF text = groupBegin THEN acc.nested + 1
                         ELSE IF text = groupEnd THEN acc.nested - 1
                         ELSE acc.nested
        step(s, nextToken) ==
          IF nextToken.text # groupEnd
          THEN IF nextToken.text = EOF
               THEN Ret(Throw(s, "Unexpected end of input in", modeName,
                              TokenRange(firstToken, lastToken, acc.str)), Null)
               ELSE parseStringGroupLoopNoNesting(
                        consume(s), modeName, groupBegin, groupEnd, raw, firstToken,
                        nextToken,
                        [str |-> acc.str \o nextToken.text,
                         nested |-> nesting(nextToken.text)])
          ELSE Ret(s, [lastToken |-> lastToken, str |-> acc.str])
        next(f) == step(f.st, f.val)
    IN  next(fetch(st))

RECURSIVE parseStringGroupLoop(_, _, _, _, _, _, _, _)
parseStringGroupLoop(st, modeName, groupBegin, groupEnd, raw, firstToken, lastToken, acc) ==
    \* acc = [str, nested]
    LET nesting(text) == IF text = groupBegin THEN acc.nested + 1
                         ELSE IF text = groupEnd THEN acc.nested - 1
                         ELSE acc.nested
        step(s, nextToken) ==
          IF nextToken.text # groupEnd \/ (raw /\ acc.nested > 0)
          THEN IF nextToken.text = EOF
               THEN Ret(Throw(s, "Unexpected end of input in", modeName,
                              TokenRange(firstToken, lastToken, acc.str)), Null)
               ELSE parseStringGroupLoop(consume(s), modeName, groupBegin, groupEnd,
                                         raw, firstToken, nextToken,
                                         [str |-> acc.str \o nextToken.text,
                                          nested |-> nesting(nextToken.text)])
          ELSE Ret(s, [lastToken |-> lastToken, str |-> acc.str])
        next(f) == step(f.st, f.val)
    IN  next(fetch(st))

parseStringGroup(st, modeName, optional, raw) ==
    LET groupBegin == IF optional THEN LBRACKET ELSE LBRACE
        groupEnd == IF optional THEN RBRACKET ELSE RBRACE
        close(outerMode, firstToken, loop, s3) ==
          IF Failed(s3) THEN Ret(s3, Null)
          ELSE Ret([s3 EXCEPT !.mode = outerMode],
                   TokenRange(firstToken, loop.val.lastToken, loop.val.str))
        inside(outerMode, firstToken, loop) ==
          IF Failed(loop.st) THEN loop
          ELSE close(outerMode, firstToken, loop, expect(loop.st, groupEnd, TRUE))
        first(outerMode, ft) ==
          inside(outerMode, ft.val,
                 parseStringGroupLoop(ft.st, modeName, groupBegin, groupEnd, raw,
                                      ft.val, ft.val, [str |-> <<>>, nested |-> 0]))
        open(outerMode, s2) ==
          IF Failed(s2) THEN Ret(s2, Null) ELSE first(outerMode, fetch(s2))
        begin(s, beginToken) ==
          IF beginToken.text # groupBegin /\ optional THEN Ret(s, Null)
          ELSE IF beginToken.text # groupBegin /\ raw /\ beginToken.text # EOF
                  /\ HasNonBraceChar(beginToken.text)
          THEN Ret(consume(s), beginToken)
          ELSE open(s.mode, expect([s EXCEPT !.mode = "text"], groupBegin, TRUE))
        start(b) == begin(b.st, b.val)
    IN  start(fetch(st))

(***************************************************************************)
(* parseRegexGroup(regex, modeName)                                        *)
(***************************************************************************)
RECURSIVE parseRegexGroupLoop(_, _, _, _)
parseRegexGroupLoop(st, regex, lastToken, str) ==
    LET step(s, nextToken) ==
          IF nextToken.text # EOF /\ RegexTest(regex, str \o nextToken.text)
          THEN parseRegexGroupLoop(consume(s), regex, nextToken, str \o nextToken.text)
          ELSE Ret(s, [lastToken |-> lastToken, str |-> str])
        next(f) == step(f.st, f.val)
    IN  next(fetch(st))

parseRegexGroup(st, regex, modeName) ==
    LET finish(firstToken, loop) ==
          IF loop.val.str = <<>>
          THEN Ret(Throw(loop.st, "Invalid", <<modeName, firstToken.text>>, firstToken),
                   Null)
          ELSE Ret([loop.st EXCEPT !.mode = st.mode],
                   TokenRange(firstToken, loop.val.lastToken, loop.val.str))
        first(ft) == finish(ft.val, parseRegexGroupLoop(ft.st, regex, ft.val, <<>>))
    IN  first(fetch([st EXCEPT !.mode = "text"]))

(***************************************************************************)
(* parseColorGroup, parseSizeGroup, parseUrlGroup                          *)
(***************************************************************************)
parseColorGroup(st, optional) ==
    LET color(s, res) ==
          IF Failed(s) \/ res = Null THEN Ret(s, Null)
          ELSE IF ~ColorRegexTest(res.text)
          THEN Ret(Throw(s, "Invalid color", res.text, res), Null)
          ELSE Ret(s, [type |-> "color-token", mode |-> s.mode,
                       color |-> IF SixHexTest(res.text) THEN <<"#">> \o res.text
                                 ELSE res.text])
        group(r) == color(r.st, r.val)
    IN  group(parseStringGroup(st, "color", optional, FALSE))

parseSizeGroupBlankOptional(st, optional) ==
    LET size(s, res, isBlank, text, match, data) ==
          IF ~match.ok
          THEN Ret(Throw(s, "Invalid size", text, [res EXCEPT !.text = text]), Null)
          ELSE IF ~validUnit(data)
          THEN Ret(Throw(s, "Invalid unit", data.unit, [res EXCEPT !.text = text]), Null)
          ELSE Ret(s, [type |-> "size", mode |-> s.mode, value |-> data,
                       isBlank |-> isBlank])
        matched(s, res, isBlank, text, match) ==
          size(s, res, isBlank, text, match,
               [number |-> ToNumber(match.sign, match.magnitude), unit |-> match.unit])
        sized(s, res, isBlank, text) == matched(s, res, isBlank, text, SizeExec(text))
        blank(s, res, isBlank) ==
          sized(s, res, isBlank, IF isBlank THEN <<"0", "p", "t">> ELSE res.text)
        group(r) ==
          IF Failed(r.st) \/ r.val = Null THEN Ret(r.st, Null)
          ELSE blank(r.st, r.val, Len(r.val.text) = 0)
        begin(f) ==
          IF ~optional /\ f.val.text # LBRACE
          THEN group(parseRegexGroup(f.st, "size", "size"))
          ELSE group(parseStringGroup(f.st, "size", optional, FALSE))
    IN  begin(fetch(st))

parseSizeGroup(st, optional) ==
    LET size(s, res, isBlank, text, match, data) ==
          IF ~match.ok
          THEN Ret(Throw(s, "Invalid size", text, [res EXCEPT !.text = text]), Null)
          ELSE IF ~validUnit(data)
          THEN Ret(Throw(s, "Invalid unit", data.unit, [res EXCEPT !.text = text]), Null)
          ELSE Ret(s, [type |-> "size", mode |-> s.mode, value |-> data,
                       isBlank |-> isBlank])
        matched(s, res, isBlank, text, match) ==
          size(s, res, isBlank, text, match,
               [number |-> ToNumber(match.sign, match.magnitude), unit |-> match.unit])
        sized(s, res, isBlank, text) == matched(s, res, isBlank, text, SizeExec(text))
        blank(s, res, isBlank) ==
          sized(s, res, isBlank, IF isBlank THEN <<"0", "p", "t">> ELSE res.text)
        group(r) ==
          IF Failed(r.st) \/ r.val = Null THEN Ret(r.st, Null)
          ELSE blank(r.st, r.val, ~optional /\ Len(r.val.text) = 0)
        begin(f) ==
          IF ~optional /\ f.val.text # LBRACE
          THEN group(parseRegexGroup(f.st, "size", "size"))
          ELSE group(parseStringGroup(f.st, "size", optional, FALSE))
    IN  begin(fetch(st))

parseUrlGroup(st, optional, doConsumeSpaces) ==
    LET url(s, res) ==
          IF res = Null THEN Ret(s, Null)
          ELSE Ret(s, [type |-> "url", mode |-> s.mode, url |-> UrlUnescape(res.text)])
        group(r) ==
          IF Failed(r.st) THEN Ret(r.st, Null) ELSE url(setCatcode(r.st, 14), r.val)
    IN  group(parseStringGroup(setCatcode(st, 13), "url", optional, TRUE))

(***************************************************************************)
(* parseSymbol.  The streams of the model hold ASCII tokens: none starts   *)
(* with a key of unicodeSymbols, none ends in a combining mark and none    *)
(* has a first code unit >= 0x80, so of lines 920-1027 what is left is the *)
(* lookup in symbols[mode].                                                *)
(***************************************************************************)
VERB == <<"\\", "v", "e", "r", "b">>

\* /^\\verb[^a-zA-Z]/.test(text)
VerbRegexTest(text) ==
    Len(text) >= 6 /\ SubSeq(text, 1, 5) = VERB /\ text[6] \notin Letters

parseSymbol(st) ==
    LET verb(s, star, arg) ==
          IF Len(arg) < 2 \/ arg[1] # arg[Len(arg)]
          THEN Ret(Throw(consume(s), "\\verb assertion failed", <<>>, NoToken), Null)
          ELSE Ret(consume(s),
                   [type |-> "verb", mode |-> "text",
                    body |-> SubSeq(arg, 2, Len(arg) - 1), star |-> star])
        verbArg(s, arg0) == verb(s, arg0[1] = "*", IF arg0[1] = "*" THEN Tail(arg0) ELSE arg0)
        symbol(s, nucleus, group, loc) ==
          Ret(consume(s),
              IF group \in ATOMS
              THEN [type |-> "atom", mode |-> s.mode, family |-> group,
                    loc |-> loc, text |-> nucleus.text]
              ELSE [type |-> group, mode |-> s.mode, loc |-> loc, text |-> nucleus.text])
        lookup(s, nucleus) ==
          IF VerbRegexTest(nucleus.text)
          THEN verbArg(s, SubSeq(nucleus.text, 6, Len(nucleus.text)))
          ELSE IF nucleus.text \in DOMAIN symbols[s.mode]
          THEN symbol(s, nucleus, symbols[s.mode][nucleus.text],
                      SourceLocationRange(nucleus, nucleus))
          ELSE Ret(s, Null)
        next(f) == lookup(f.st, f.val)
    IN  next(fetch(st))

(***************************************************************************)
(* The mutually recursive methods.  A mode that is not given is "", a      *)
(* breakOnTokenText that is not given is Undefined, and a greediness that  *)
(* is null or not given is <<>> (<<g>> when it is g).                      *)
(***************************************************************************)
NoGreediness == <<>>

ArgTypeAt(funcData, i) ==
    IF i < Len(funcData.argTypes) THEN At(funcData.argTypes, i) ELSE ""

RECURSIVE parseExpression(_, _, _), parseExpressionLoop(_, _, _, _), parseAtom(_, _),
          parseAtomLoop(_, _, _, _), primesLoop(_, _, _), handleSupSubscript(_, _),
          parseGroup(_, _, _, _, _, _, _), parseFunction(_, _, _, _),
          parseArguments(_, _, _), parseArgumentsLoop(_, _, _, _, _, _),
          parseGroupOfType(_, _, _, _, _, _)

\* lines 184-188: a is what parseAtom returned
parseExpressionAtom(a, breakOnInfix, breakOnTokenText, body) ==
    IF Failed(a.st) \/ a.val = Null THEN Ret(a.st, body)
    ELSE parseExpressionLoop(a.st, breakOnInfix, breakOnTokenText, Append(body, a.val))

\* lines 174-184: f is what fetch returned
parseExpressionStep(f, breakOnInfix, breakOnTokenText, body) ==
    IF f.val.text \in endOfExpression THEN Ret(f.st, body)
    ELSE IF breakOnTokenText # Undefined /\ f.val.text = breakOnTokenText
    THEN Ret(f.st, body)
    ELSE IF breakOnInfix /\ IsFunction(f.val.text) /\ functions[f.val.text].infix
    THEN Ret(f.st, body)
    ELSE parseExpressionAtom(parseAtom(f.st, breakOnTokenText),
                             breakOnInfix, breakOnTokenText, body)

\* the loop of lines 169-189: val is the body
parseExpressionLoop(st, breakOnInfix, breakOnTokenText, body) ==
    parseExpressionStep(fetch(IF st.mode = "math" THEN consumeSpaces(st) ELSE st),
                        breakOnInfix, breakOnTokenText, body)

\* lines 190-193: loop is what the loop returned
parseExpressionEnd(loop) ==
    IF Failed(loop.st) THEN Ret(loop.st, Null)
    ELSE handleInfixNodes(loop.st,
                          IF loop.st.mode = "text" THEN formLigatures(loop.val)
                          ELSE loop.val)

parseExpression(st, breakOnInfix, breakOnTokenText) ==
    parseExpressionEnd(parseExpressionLoop(st, breakOnInfix, breakOnTokenText, <<>>))

\* lines 267-274: g is what parseGroup returned
handleSupSubscriptGroup(symbolToken, g) ==
    IF Failed(g.st) THEN g
    ELSE IF g.val = Null
    THEN Ret(Throw(g.st, "Expected group after", symbolToken.text, symbolToken), Null)
    ELSE g

\* lines 260-264: f is what fetch returned
handleSupSubscriptNext(f, name) ==
    handleSupSubscriptGroup(f.val,
                            parseGroup(consume(f.st), name, FALSE, <<SUPSUB_GREEDINESS>>,
                                       Undefined, "", TRUE))

handleSupSubscript(st, name) == handleSupSubscriptNext(fetch(st), name)

\* the inner loop of lines 367-371: val is the list of primes
primesLoop(st, prime, primes) ==
    LET next(f) ==
          IF f.val.text = PRIME
          THEN primesLoop(consume(f.st), prime, Append(primes, prime))
          ELSE Ret(f.st, primes)
    IN  next(fetch(st))

\* what the loop of parseAtom hands to lines 387-399
AtomParts(st, base, superscript, subscript) ==
    Ret(st, [base |-> base, superscript |-> superscript, subscript |-> subscript])

\* line 349: h is what handleSupSubscript returned
parseAtomSuperscript(h, base, superscript, subscript) ==
    IF Failed(h.st) THEN AtomParts(h.st, base, superscript, subscript)
    ELSE parseAtomLoop(h.st, base, h.val, subscript)

\* line 355: h is what handleSupSubscript returned
parseAtomSubscript(h, base, superscript, subscript) ==
    IF Failed(h.st) THEN AtomParts(h.st, base, superscript, subscript)
    ELSE parseAtomLoop(h.st, base, superscript, h.val)

parseAtomPrimedDropsGroup(h, primes, base, superscript, subscript) ==
    IF Failed(h.st) THEN AtomParts(h.st, base, superscript, subscript)
    ELSE parseAtomLoop(h.st, base,
                       [type |-> "ordgroup", mode |-> h.st.mode, body |-> primes],
                       subscript)

\* lines 375-378: h is the group after a caret that follows the primes, with
\* val Null when no caret follows
parseAtomPrimed(h, primes, base, superscript, subscript) ==
    IF Failed(h.st) THEN AtomParts(h.st, base, superscript, subscript)
    ELSE parseAtomLoop(h.st, base,
                       [type |-> "ordgroup", mode |-> h.st.mode,
                        body |-> IF h.val = Null THEN primes ELSE Append(primes, h.val)],
                       subscript)

\* lines 374-376: f is what fetch returned after the primes
parseAtomAfterPrimes(f, primes, base, superscript, subscript) ==
    IF f.val.text = CARET
    THEN parseAtomPrimed(handleSupSubscript(f.st, "superscript"), primes,
                         base, superscript, subscript)
    ELSE parseAtomPrimed(Ret(f.st, Null), primes, base, superscript, subscript)

\* lines 367-374: counted is what the loop over the primes returned
parseAtomPrimes(counted, base, superscript, subscript) ==
    parseAtomAfterPrimes(fetch(counted.st), counted.val, base, superscript, subscript)

\* lines 330 and 334-335: the bases a limit control may follow
acceptsLimits(base) ==
    /\ base # Null
    /\ \/ base.type = "op"
       \/ base.type = "operatorname" /\ base.alwaysHandleSupSub

withLimitsIgnoresControl(base, text) ==
    IF base.type = "op"
    THEN SetField(SetField(base, "limits", TRUE), "alwaysHandleSupSub", TRUE)
    ELSE SetField(base, "limits", TRUE)

\* lines 331-333 and 336-337: the base after the limit control text
withLimits(base, text) ==
    IF base.type = "op"
    THEN SetField(SetField(base, "limits", text = LIMITS), "alwaysHandleSupSub", TRUE)
    ELSE SetField(base, "limits", text = LIMITS)

\* lines 326-382: f is what fetch returned
parseAtomStep(f, base, superscript, subscript) ==
    IF f.val.text = LIMITS \/ f.val.text = NOLIMITS
    THEN IF acceptsLimits(base)
         THEN parseAtomLoop(consume(f.st), withLimits(base, f.val.text),
                            superscript, subscript)
         ELSE AtomParts(Throw(f.st, "Limit controls must follow a math operator", <<>>,
                              f.val),
                        base, superscript, subscript)
    ELSE IF f.val.text = CARET
    THEN IF superscript # Null
         THEN AtomParts(Throw(f.st, "Double superscript", <<>>, f.val),
                        base, superscript, subscript)
         ELSE parseAtomSuperscript(handleSupSubscript(f.st, "superscript"),
                                   base, superscript, subscript)
    ELSE IF f.val.text = UNDERSCORE
    THEN IF subscript # Null
         THEN AtomParts(Throw(f.st, "Double subscript", <<>>, f.val),
                        base, superscript, subscript)
         ELSE parseAtomSubscript(handleSupSubscript(f.st, "subscript"),
                                 base, superscript, subscript)
    ELSE IF f.val.text = PRIME
    THEN IF superscript # Null
         THEN AtomParts(Throw(f.st, "Double superscript", <<>>, f.val),
                        base, superscript, subscript)
         ELSE parseAtomPrimes(primesLoop(consume(f.st),
                                         [type |-> "textord", mode |-> f.st.mode,
                                          text |-> PRIMECMD],
                                         <<[type |-> "textord", mode |-> f.st.mode,
                                            text |-> PRIMECMD]>>),
                              base, superscript, subscript)
    ELSE AtomParts(f.st, base, superscript, subscript)

\* the loop of lines 321-383: val is [base, superscript, subscript]
parseAtomLoop(st, base, superscript, subscript) ==
    parseAtomStep(fetch(consumeSpaces(st)), base, superscript, subscript)

parseAtomEndAlwaysSupSub(loop) ==
    IF Failed(loop.st) THEN Ret(loop.st, Null)
    ELSE IF loop.val.base # Null
    THEN Ret(loop.st, [type |-> "supsub", mode |-> loop.st.mode,
                       base |-> loop.val.base,
                       sup |-> loop.val.superscript,
                       sub |-> loop.val.subscript])
    ELSE Ret(loop.st, loop.val.base)

\* lines 387-399: loop is what the loop returned
parseAtomEnd(loop) ==
    IF Failed(loop.st) THEN Ret(loop.st, Null)
    ELSE IF loop.val.superscript # Null \/ loop.val.subscript # Null
    THEN Ret(loop.st, [type |-> "supsub", mode |-> loop.st.mode,
                       base |-> loop.val.base,
                       sup |-> loop.val.superscript,
                       sub |-> loop.val.subscript])
    ELSE Ret(loop.st, loop.val.base)

\* lines 310-315: b is what parseGroup returned
parseAtomBase(b) ==
    IF Failed(b.st) THEN b
    ELSE IF b.st.mode = "text" THEN b
    ELSE parseAtomEnd(parseAtomLoop(b.st, b.val, Null, Null))

parseAtom(st, breakOnTokenText) ==
    parseAtomBase(parseGroup(st, "atom", FALSE, NoGreediness, breakOnTokenText, "", FALSE))

parseGroupCloseKeepsGroupOpen(closed, firstToken, lastToken, e) ==
    IF Failed(closed) THEN Ret(closed, Null)
    ELSE Ret(closed,
             [type |-> "ordgroup", mode |-> closed.mode,
              loc |-> SourceLocationRange(firstToken, lastToken),
              body |-> e.val,
              semisimple |-> firstToken.text = BEGINGROUP])

\* lines 806-819: closed is the parser after the expect of the group's end
parseGroupClose(closed, firstToken, lastToken, e) ==
    IF Failed(closed) THEN Ret(closed, Null)
    ELSE Ret(endGroup(closed),
             [type |-> "ordgroup", mode |-> closed.mode,
              loc |-> SourceLocationRange(firstToken, lastToken),
              body |-> e.val,
              semisimple |-> firstToken.text = BEGINGROUP])

\* lines 804-806: l is what fetch returned after the expression
parseGroupLast(l, firstToken, groupEnd, e) ==
    parseGroupClose(expect(l.st, groupEnd, TRUE), firstToken, l.val, e)

\* lines 803-804: e is what parseExpression returned
parseGroupInside(e, firstToken, groupEnd) ==
    IF Failed(e.st) THEN Ret(e.st, Null)
    ELSE parseGroupLast(fetch(e.st), firstToken, groupEnd, e)

\* lines 828-836: r is what parseFunction || parseSymbol returned
parseGroupSymbol(r, firstToken) ==
    IF Failed(r.st) THEN Ret(r.st, Null)
    ELSE IF r.val = Null /\ firstToken.text[1] = "\\"
            /\ firstToken.text \notin implicitCommands
    THEN IF r.st.settings.throwOnError
         THEN Ret(Throw(r.st, "Undefined control sequence", firstToken.text, firstToken),
                  Null)
         ELSE Ret(consume(r.st), formatUnsupportedCmd(r.st, firstToken.text))
    ELSE r

\* lines 826-827: pf is what parseFunction returned
parseGroupFunction(pf, firstToken) ==
    IF Failed(pf.st) THEN Ret(pf.st, Null)
    ELSE IF pf.val # Null THEN parseGroupSymbol(pf, firstToken)
    ELSE parseGroupSymbol(parseSymbol(pf.st), firstToken)

\* lines 792-827: f is what fetch returned
parseGroupBegin(f, name, optional, greediness, breakOnTokenText) ==
    IF (IF optional THEN f.val.text = LBRACKET
        ELSE f.val.text = LBRACE \/ f.val.text = BEGINGROUP)
    THEN parseGroupInside(parseExpression(beginGroup(consume(f.st)), FALSE,
                                          endOfGroup[f.val.text]),
                          f.val, endOfGroup[f.val.text])
    ELSE IF optional THEN Ret(f.st, Null)
    ELSE parseGroupFunction(parseFunction(f.st, breakOnTokenText, name, greediness),
                            f.val)

\* lines 792-837 of parseGroup: what is parsed once the mode is switched and
\* the spaces are consumed
parseGroupBody(st, name, optional, greediness, breakOnTokenText) ==
    parseGroupBegin(fetch(st), name, optional, greediness, breakOnTokenText)

\* lines 840-843: r is what the body returned
parseGroupRestore(r, outerMode, mode) ==
    IF Failed(r.st) THEN r
    ELSE IF mode # "" THEN Ret(switchMode(r.st, outerMode), r.val)
    ELSE r

\* lines 782-790
parseGroupEnter(st, mode, doConsumeSpaces) ==
    IF doConsumeSpaces
    THEN consumeSpaces(IF mode # "" THEN switchMode(st, mode) ELSE st)
    ELSE IF mode # "" THEN switchMode(st, mode) ELSE st

parseGroup(st, name, optional, greediness, breakOnTokenText, mode, doConsumeSpaces) ==
    parseGroupRestore(parseGroupBody(parseGroupEnter(st, mode, doConsumeSpaces),
                                     name, optional, greediness, breakOnTokenText),
                      st.mode, mode)

\* lines 430-431: a is what parseArguments returned
parseFunctionCall(a, token, breakOnTokenText) ==
    IF Failed(a.st) THEN Ret(a.st, Null)
    ELSE callFunction(a.st, token.text, a.val.args, a.val.optArgs, token,
                      breakOnTokenText)

parseFunctionChecksModeFirst(st, token, funcData, breakOnTokenText, name, greediness) ==
    IF st.mode = "text" /\ ~funcData.allowedInText
    THEN Ret(Throw(st, "Can't use function in text mode", token.text, token), Null)
    ELSE IF st.mode = "math" /\ ~funcData.allowedInMath
    THEN Ret(Throw(st, "Can't use function in math mode", token.text, token), Null)
    ELSE IF greediness # NoGreediness /\ funcData.greediness <= greediness[1]
    THEN Ret(Throw(st, "Got function with no arguments as", <<token.text, name>>, token),
             Null)
    ELSE parseFunctionCall(parseArguments(st, token.text, funcData), token,
                           breakOnTokenText)

\* lines 418-430: st is the parser after the function token was consumed
parseFunctionChecks(st, token, funcData, breakOnTokenText, name, greediness) ==
    IF greediness # NoGreediness /\ funcData.greediness <= greediness[1]
    THEN Ret(Throw(st, "Got function with no arguments as", <<token.text, name>>, token),
             Null)
    ELSE IF st.mode = "text" /\ ~funcData.allowedInText
    THEN Ret(Throw(st, "Can't use function in text mode", token.text, token), Null)
    ELSE IF st.mode = "math" /\ ~funcData.allowedInMath
    THEN Ret(Throw(st, "Can't use function in math mode", token.text, token), Null)
    ELSE parseFunctionCall(parseArguments(st, token.text, funcData), token,
                           breakOnTokenText)

\* lines 410-416: f is what fetch returned
parseFunctionToken(f, breakOnTokenText, name, greediness) ==
    IF ~IsFunction(f.val.text) THEN Ret(f.st, Null)
    ELSE parseFunctionChecks(consume(f.st), f.val, functions[f.val.text],
                             breakOnTokenText, name, greediness)

parseFunction(st, breakOnTokenText, name, greediness) ==
    parseFunctionToken(fetch(st), breakOnTokenText, name, greediness)

\* lines 499-500: f is what fetch returned
parseArgumentsMissing(f, func) ==
    Ret(Throw(f.st, "Expected group after", func, f.val), Null)

\* lines 494-502: arg is what parseGroupOfType returned
parseArgumentsArg(arg, isOptional, func, funcData, i, args, optArgs) ==
    IF Failed(arg.st) THEN Ret(arg.st, Null)
    ELSE IF arg.val = Null
    THEN IF isOptional
         THEN parseArgumentsLoop(arg.st, func, funcData, i + 1, args,
                                 Append(optArgs, Null))
         ELSE parseArgumentsMissing(fetch(arg.st), func)
    ELSE IF isOptional
    THEN parseArgumentsLoop(arg.st, func, funcData, i + 1, args, Append(optArgs, arg.val))
    ELSE parseArgumentsLoop(arg.st, func, funcData, i + 1, Append(args, arg.val), optArgs)

\* lines 478-493
parseArgumentsGroup(st, argType, isOptional, func, funcData, i, args, optArgs) ==
    parseArgumentsArg(parseGroupOfType(st, <<"argument to", func>>, argType, isOptional,
                                       <<funcData.greediness>>,
                                       (i > 0 /\ ~isOptional)
                                         \/ (i = 0 /\ ~isOptional /\ st.mode = "math")),
                      isOptional, func, funcData, i, args, optArgs)

\* the loop of lines 477-503: val is [args, optArgs]
parseArgumentsLoop(st, func, funcData, i, args, optArgs) ==
    IF ~(i < funcData.numArgs + funcData.numOptionalArgs)
    THEN Ret(st, [args |-> args, optArgs |-> optArgs])
    ELSE parseArgumentsGroup(st, ArgTypeAt(funcData, i), i < funcData.numOptionalArgs,
                             func, funcData, i, args, optArgs)

parseArguments(st, func, funcData) ==
    IF funcData.numArgs + funcData.numOptionalArgs = 0
    THEN Ret(st, [args |-> <<>>, optArgs |-> <<>>])
    ELSE parseArgumentsLoop(st, func, funcData, 0, <<>>, <<>>)

\* lines 538-549: g is what parseGroup returned
parseGroupOfTypeHbox(g) ==
    IF Failed(g.st) \/ g.val = Null THEN g
    ELSE Ret(g.st, [type |-> "styling", mode |-> g.val.mode,
                    body |-> <<g.val>>, style |-> "text"])

\* lines 575-576: e is what fetch returned
parseGroupOfTypeUnknown(e, name) ==
    Ret(Throw(e.st, "Unknown group type as", name, e.val), Null)

\* line 566: e is what fetch returned
parseGroupOfTypeNoRaw(e) == Ret(Throw(e.st, "Expected raw group", <<>>, e.val), Null)

\* lines 558-567: t is what parseStringGroup returned
parseGroupOfTypeRaw(t) ==
    IF Failed(t.st) THEN Ret(t.st, Null)
    ELSE IF t.val # Null
    THEN Ret(t.st, [type |-> "raw", mode |-> "text", string |-> t.val.text])
    ELSE parseGroupOfTypeNoRaw(fetch(t.st))

\* lines 555-558: f is what fetch returned when the group is optional
parseGroupOfTypeRawBegin(f, optional) ==
    IF optional /\ f.val.text = LBRACE THEN Ret(f.st, Null)
    ELSE parseGroupOfTypeRaw(parseStringGroup(f.st, "raw", optional, TRUE))

\* lines 520-522
parseGroupOfTypeSpaces(st, doConsumeSpaces) ==
    IF doConsumeSpaces THEN consumeSpaces(st) ELSE st

parseGroupOfType(st, name, type, optional, greediness, doConsumeSpaces) ==
    CASE type = "color" ->
           parseColorGroup(parseGroupOfTypeSpaces(st, doConsumeSpaces), optional)
      [] type = "size" ->
           parseSizeGroup(parseGroupOfTypeSpaces(st, doConsumeSpaces), optional)
      [] type = "url" -> parseUrlGroup(st, optional, doConsumeSpaces)
      [] type = "math" \/ type = "text" ->
           parseGroup(st, name, optional, greediness, Undefined, type, doConsumeSpaces)
      [] type = "hbox" ->
           parseGroupOfTypeHbox(parseGroup(st, name, optional, greediness, Undefined,
                                           "text", doConsumeSpaces))
      [] type = "raw" ->
           parseGroupOfTypeRawBegin(
               IF optional THEN fetch(parseGroupOfTypeSpaces(st, doConsumeSpaces))
               ELSE Ret(parseGroupOfTypeSpaces(st, doConsumeSpaces), NoToken),
               optional)
      [] type = "original" \/ type = "" ->
           parseGroup(st, name, optional, greediness, Undefined, "", doConsumeSpaces)
      [] OTHER -> parseGroupOfTypeUnknown(fetch(st), name)

(***************************************************************************)
(* parse                                                                   *)
(***************************************************************************)
\* lines 137-140: closed is the parser after the expect of EOF
parseEnd(e, closed) ==
    IF Failed(closed) THEN Ret(closed, Null)
    ELSE Ret(IF ~closed.settings.globalGroup THEN endGroup(closed) ELSE closed, e.val)

parseExpectNothing(e) ==
    IF Failed(e.st) THEN Ret(e.st, Null) ELSE parseEnd(e, e.st)

\* lines 131-133: e is what parseExpression returned
parseExpectEof(e) ==
    IF Failed(e.st) THEN Ret(e.st, Null) ELSE parseEnd(e, expect(e.st, EOF, TRUE))

\* lines 117-128
parseBegin(st) ==
    IF st.settings.colorIsTextColor
    THEN macrosSet(IF ~st.settings.globalGroup THEN beginGroup(st) ELSE st)
    ELSE IF ~st.settings.globalGroup THEN beginGroup(st) ELSE st

parse(st) == parseExpectEof(parseExpression(parseBegin(st), FALSE, Undefined))

(***************************************************************************)
(* Streams of at most n tokens over an alphabet.                           *)
(***************************************************************************)
RECURSIVE Streams(_, _)
Streams(alphabet, n) ==
    IF n = 0 THEN {<<>>}
    ELSE LET shorter == Streams(alphabet, n - 1)
         IN  shorter \cup {Append(t, a) : t \in {u \in shorter : Len(u) = n - 1},
                                          a \in alphabet}

NewCall == [op |-> "new"]

(***************************************************************************)
(* Spec: a parser is constructed on a token stream and parse() is called.  *)
(***************************************************************************)
ParseTokens == {LETTER_X, LBRACE, RBRACE, OVER, CARET, FOO, TEXT, BEGINGROUP, ENDGROUP}

ParseSettings ==
    {[DefaultSettings EXCEPT !.globalGroup = g, !.throwOnError = t] :
        g \in BOOLEAN, t \in BOOLEAN}

Init ==
    /\ ps \in {NewParser(toks, settings) :
                 toks \in Streams(ParseTokens, MaxLen), settings \in ParseSettings}
    /\ nodes = <<>>
    /\ call = NewCall

\* the parser and the record of the call after a method has returned or raised r
Outcome(r, record) ==
    /\ ps' = r.st
    /\ call' = [record EXCEPT !.val = r.val]

Parse ==
    /\ call.op = "new"
    /\ Outcome(parse(ps), [op |-> "parse", pre |-> ps, val |-> Null])
    /\ UNCHANGED nodes

Next == Parse

Spec == Init /\ [][Next]_vars

(***************************************************************************)
(* Reading a returned tree.                                                *)
(***************************************************************************)
NonNull(list) == SelectSeq(list, LAMBDA n : n # Null)

\* the child nodes of a node, by the fields its type carries
Kids(node) ==
    CASE node.type \in {"ordgroup", "text", "color", "styling", "href", "hbox",
                        "operatorname"} -> node.body
      [] node.type = "supsub" -> NonNull(<<node.base, node.sup, node.sub>>)
      [] node.type = "genfrac" -> <<node.numer, node.denom>>
      [] node.type = "sqrt" -> NonNull(<<node.body, node.index>>)
      [] OTHER -> <<>>

RECURSIVE Descendants(_)
Descendants(node) ==
    {node} \cup UNION {Descendants(Kids(node)[i]) : i \in 1..Len(Kids(node))}

TreeNodes(list) == UNION {Descendants(list[i]) : i \in 1..Len(list)}

Toks == ps.gullet.toks

Range(seq) == {seq[i] : i \in 1..Len(seq)}

Returned(op) == call.op = op /\ ~Failed(ps)

Raised(op, msg) == call.op = op /\ Failed(ps) /\ ps.err.msg = msg

\* the i-th token the expander hands out
ExpanderToken(toks, i) ==
    IF i <= Len(toks) THEN Token(toks[i], <<i, i>>) ELSE EofToken(toks)

(***************************************************************************)
(* C3: whenever parse() returns, the beginGroup and endGroup calls made on *)
(* the expander balance, every token of the stream was pulled once, and    *)
(* the last token pulled, the one parse() ended on, is the EOF sentinel;   *)
(* when the top-level expression stops at another token parse() raises     *)
(* "Expected 'EOF', got ..." on that token, which stays in the lookahead.  *)
(***************************************************************************)
C3_ParseEndsAtEofBalanced ==
    /\ Returned("parse") =>
         /\ ps.gullet.depth = 0
         /\ Len(SelectSeq(ps.gullet.groups, LAMBDA e : e = "begin"))
              = Len(SelectSeq(ps.gullet.groups, LAMBDA e : e = "end"))
         /\ Len(ps.gullet.pulls) = Len(Toks) + 1
         /\ \A i \in 1..Len(ps.gullet.pulls) :
              ps.gullet.pulls[i].token = ExpanderToken(Toks, i)
         /\ ps.nextToken = NoToken
    /\ (Raised("parse", "Expected, got") /\ ps.err.arg[1] = EOF) =>
         /\ ps.err.token.text # EOF
         /\ ps.nextToken = ps.err.token

C3_Witness ==
    /\ Returned("parse")
    /\ ~ps.settings.globalGroup
    /\ Len(ps.gullet.groups) >= 6
    /\ Len(Toks) = 4

(***************************************************************************)
(* C4: no tree parse() returns holds an infix node, at any depth.          *)
(***************************************************************************)
C4_NoInfixInReturnedTree ==
    Returned("parse") => \A n \in TreeNodes(call.val) : n.type # "infix"

(***************************************************************************)
(* C5: a sibling list with more than one infix node makes parseExpression  *)
(* raise "only one infix operator per group" on the second infix token of  *)
(* that list, and nothing else raises that error; the infix operators of   *)
(* different groups are rewritten one per group.  The sibling lists are    *)
(* read off the stream: a frame per open group counts the infix tokens met *)
(* at its own level and keeps the place of the second.  A closing command  *)
(* that stands as the argument of '^' or of \text is no end of a list: it  *)
(* is read as an (undefined) command.  An infix token that a '^', '_' or   *)
(* "'" follows is no member of a list: parseAtom makes it the base of a    *)
(* supsub node.                                                            *)
(***************************************************************************)
IsInfixToken(text) == IsFunction(text) /\ functions[text].infix

RECURSIVE NextNonSpace(_, _)
NextNonSpace(toks, i) ==
    IF i <= Len(toks) /\ toks[i] = SPACE THEN NextNonSpace(toks, i + 1) ELSE i

IsSiblingInfix(toks, i) ==
    /\ IsInfixToken(toks[i])
    /\ LET j == NextNonSpace(toks, i + 1)
       IN  ~(j <= Len(toks) /\ toks[j] \in {CARET, UNDERSCORE, PRIME})

EndsList(toks, i) ==
    /\ toks[i] \in endOfExpression
    /\ ~(i > 1 /\ toks[i][1] = "\\" /\ toks[i - 1] \in {CARET, TEXT})

\* the place of the second infix token of the first sibling list that ends
\* holding two, 0 if no list of the stream does
RECURSIVE SecondInfixOfFirstOverfullList(_, _, _)
SecondInfixOfFirstOverfullList(toks, i, stack) ==
    LET top == stack[Len(stack)]
    IN  IF i > Len(toks) \/ EndsList(toks, i)
        THEN IF top.count >= 2 THEN top.second
             ELSE IF i > Len(toks) \/ Len(stack) = 1 THEN 0
             ELSE SecondInfixOfFirstOverfullList(toks, i + 1, SubSeq(stack, 1, Len(stack) - 1))
        ELSE IF toks[i] \in {LBRACE, BEGINGROUP}
        THEN SecondInfixOfFirstOverfullList(toks, i + 1,
                                            Append(stack, [count |-> 0, second |-> 0]))
        ELSE IF IsSiblingInfix(toks, i)
        THEN SecondInfixOfFirstOverfullList(
                 toks, i + 1,
                 [stack EXCEPT ![Len(stack)] =
                     [count |-> top.count + 1,
                      second |-> IF top.count = 1 THEN i ELSE top.second]])
        ELSE SecondInfixOfFirstOverfullList(toks, i + 1, stack)

SecondInfix(toks) ==
    SecondInfixOfFirstOverfullList(toks, 1, <<[count |-> 0, second |-> 0]>>)

RECURSIVE CountInNode(_, _), CountInList(_, _)
CountInNode(node, type) ==
    (IF node.type = type THEN 1 ELSE 0) + CountInList(Kids(node), type)

CountInList(list, type) ==
    IF list = <<>> THEN 0
    ELSE CountInNode(Head(list), type) + CountInList(Tail(list), type)

CountType(list, type) == CountInList(list, type)

C5_OneInfixPerGroup ==
    call.op = "parse" =>
        /\ SecondInfix(Toks) # 0 => Failed(ps)
        /\ Raised("parse", "only one infix operator per group") =>
             /\ SecondInfix(Toks) # 0
             /\ ps.err.token = ExpanderToken(Toks, SecondInfix(Toks))
        /\ (Returned("parse") /\ CountType(call.val, "infix") = 0) =>
             CountType(call.val, "genfrac") = Len(SelectSeq(Toks, IsInfixToken))

C5_Witness ==
    /\ Raised("parse", "only one infix operator per group")
    /\ Toks = <<LBRACE, OVER, OVER, RBRACE>>
    /\ ps.err.token = Token(OVER, <<3, 3>>)

C5_WitnessTwoGroups ==
    /\ Returned("parse")
    /\ Toks = <<OVER, LBRACE, OVER, RBRACE>>
    /\ CountType(call.val, "genfrac") = 2

(***************************************************************************)
(* SpecAtom: parseAtom is called on a fresh parser, in math mode or, after *)
(* switchMode("text"), in text mode.                                       *)
(***************************************************************************)
AtomTokens == {LETTER_X, CARET, UNDERSCORE, PRIME, SPACE, LBRACE, RBRACE, SUM, LIMITS}

InitAtom ==
    /\ ps \in {NewParser(toks, DefaultSettings) : toks \in Streams(AtomTokens, MaxAtomLen)}
    /\ nodes = <<>>
    /\ call = NewCall

SwitchModeText ==
    /\ call.op = "new"
    /\ ps' = switchMode(ps, "text")
    /\ call' = [op |-> "switchMode", pre |-> ps]
    /\ UNCHANGED nodes

ParseAtom ==
    /\ call.op \in {"new", "switchMode"}
    /\ Outcome(parseAtom(ps, Undefined), [op |-> "parseAtom", pre |-> ps, val |-> Null])
    /\ UNCHANGED nodes

NextAtom == SwitchModeText \/ ParseAtom

SpecAtom == InitAtom /\ [][NextAtom]_vars

(***************************************************************************)
(* C6: every supsub node parseAtom builds has a sup or a sub; when no '^', *)
(* '_' or "'" follows the base (and its spaces and limit controls) the     *)
(* value is the base itself, which limit controls may have marked, and the *)
(* value is a supsub node over that base when one follows; in text mode    *)
(* the value is the base just as parseGroup left it and no supsub is built.*)
(***************************************************************************)
AtomBase == parseGroup(call.pre, "atom", FALSE, NoGreediness, Undefined, "", FALSE)

\* the index in the stream of the lookahead of state st
LookaheadIndex(st) ==
    IF st.nextToken = NoToken THEN Len(st.gullet.pulls) + 1 ELSE Len(st.gullet.pulls)

RECURSIVE SkipSpacesAndLimits(_, _)
SkipSpacesAndLimits(toks, i) ==
    IF i <= Len(toks) /\ toks[i] \in {SPACE, LIMITS, NOLIMITS}
    THEN SkipSpacesAndLimits(toks, i + 1) ELSE i

SupSubFollows(st) ==
    LET j == SkipSpacesAndLimits(st.gullet.toks, LookaheadIndex(st))
    IN  j <= Len(st.gullet.toks) /\ st.gullet.toks[j] \in {CARET, UNDERSCORE, PRIME}

SameButLimits(a, b) ==
    /\ a.type = b.type
    /\ \A k \in DOMAIN b \ {"limits", "alwaysHandleSupSub"} : k \in DOMAIN a /\ a[k] = b[k]

C6_SupSubHasSupOrSub ==
    Returned("parseAtom") =>
        /\ \A n \in Descendants(call.val) :
             n.type = "supsub" => (n.sup # Null \/ n.sub # Null)
        /\ call.pre.mode = "math" =>
             IF SupSubFollows(AtomBase.st)
             THEN call.val.type = "supsub" /\ SameButLimits(call.val.base, AtomBase.val)
             ELSE SameButLimits(call.val, AtomBase.val)
        /\ call.pre.mode = "text" =>
             /\ call.val = AtomBase.val
             /\ ps = AtomBase.st
             /\ \A n \in Descendants(call.val) : n.type # "supsub"

C6_Witness ==
    /\ Returned("parseAtom")
    /\ call.val.type = "supsub"
    /\ call.val.base # Null
    /\ call.val.sup # Null
    /\ call.val.sub = Null

(***************************************************************************)
(* SpecGroup: parseGroup is called on a fresh parser, in math mode or,     *)
(* after switchMode("text"), in text mode.                                 *)
(***************************************************************************)
BAZ == <<"\\", "b", "a", "z", "z">>

GroupTokens == {LETTER_X, SPACE, LBRACE, RBRACE, LBRACKET, RBRACKET, FOO, BAZ, RELAX, TEXT}

GroupSettings == {[DefaultSettings EXCEPT !.throwOnError = t] : t \in BOOLEAN}

InitGroup ==
    /\ ps \in {NewParser(toks, settings) :
                 toks \in Streams(GroupTokens, MaxGroupLen), settings \in GroupSettings}
    /\ nodes = <<>>
    /\ call = NewCall

ParseGroup(optional, mode, doConsumeSpaces) ==
    /\ call.op \in {"new", "switchMode"}
    /\ Outcome(parseGroup(ps, "group", optional, NoGreediness, Undefined, mode,
                          doConsumeSpaces),
               [op |-> "parseGroup", pre |-> ps, val |-> Null, optional |-> optional,
                mode |-> mode, consumeSpaces |-> doConsumeSpaces])
    /\ UNCHANGED nodes

NextGroup ==
    \/ SwitchModeText
    \/ \E optional \in BOOLEAN, mode \in {"", "math", "text"}, doConsumeSpaces \in BOOLEAN :
         ParseGroup(optional, mode, doConsumeSpaces)

SpecGroup == InitGroup /\ [][NextGroup]_vars

(***************************************************************************)
(* C1: a parseGroup call that is given a mode leaves the parser's mode and *)
(* the mode last given to the expander as they were before the call,       *)
(* however the call exits.                                                 *)
(***************************************************************************)
C1_ModePreservedOnEveryExit ==
    (call.op = "parseGroup" /\ call.mode # "") =>
        /\ ps.mode = call.pre.mode
        /\ ps.gullet.mode = call.pre.gullet.mode

(***************************************************************************)
(* C10: in a non-optional position, on a lookahead that starts with a      *)
(* backslash and is no function, no symbol of the mode and no implicit     *)
(* command, parseGroup raises "Undefined control sequence" with the token  *)
(* left in the lookahead when throwOnError is set, and otherwise consumes  *)
(* that one token and returns a color node of the error color around one   *)
(* text node with one textord per character of the command; on an implicit *)
(* command it returns null and consumes nothing.                           *)
(***************************************************************************)
\* the place of the lookahead parseGroup decides on
GroupLookahead ==
    IF call.consumeSpaces THEN NextNonSpace(Toks, 1) ELSE 1

GroupMode == IF call.mode # "" THEN call.mode ELSE call.pre.mode

IsUndefinedCommand(text, mode) ==
    /\ ~IsFunction(text)
    /\ text \notin DOMAIN symbols[mode]
    /\ text[1] = "\\"
    /\ text \notin implicitCommands

IsUnsupportedCmdNode(node, text, mode, color) ==
    /\ node.type = "color" /\ node.mode = mode /\ node.color = color
    /\ Len(node.body) = 1
    /\ node.body[1].type = "text" /\ node.body[1].mode = mode
    /\ Len(node.body[1].body) = Len(text)
    /\ \A i \in 1..Len(text) :
         /\ node.body[1].body[i].type = "textord"
         /\ node.body[1].body[i].text = <<text[i]>>

C10_UndefinedControlSequence ==
    (call.op = "parseGroup" /\ ~call.optional) =>
        LET k == GroupLookahead
            tok == ExpanderToken(Toks, k)
        IN  /\ IsUndefinedCommand(tok.text, GroupMode) =>
                 IF ps.settings.throwOnError
                 THEN /\ Raised("parseGroup", "Undefined control sequence")
                      /\ ps.err.token = tok
                      /\ ps.nextToken = tok
                      /\ Len(ps.gullet.pulls) = k
                 ELSE /\ Returned("parseGroup")
                      /\ IsUnsupportedCmdNode(call.val, tok.text, GroupMode,
                                              ps.settings.errorColor)
                      /\ ps.nextToken = NoToken
                      /\ Len(ps.gullet.pulls) = k
            /\ (tok.text \in implicitCommands /\ ~IsFunction(tok.text)
                  /\ tok.text \notin DOMAIN symbols[GroupMode]) =>
                 /\ Returned("parseGroup")
                 /\ call.val = Null
                 /\ ps.nextToken = tok
                 /\ Len(ps.gullet.pulls) = k

C10_Witness ==
    /\ Returned("parseGroup")
    /\ ~call.optional
    /\ ~ps.settings.throwOnError
    /\ Toks = <<SPACE, BAZ, LETTER_X>>
    /\ call.consumeSpaces
    /\ call.val.type = "color"
    /\ Len(call.val.body[1].body) = 5

(***************************************************************************)
(* SpecUrl: parseUrlGroup is called on a fresh parser.                     *)
(***************************************************************************)
UrlTokens == {LETTER_X, LBRACE, RBRACE, LBRACKET, RBRACKET, PERCENT, SPACE}

InitUrl ==
    /\ ps \in {NewParser(toks, DefaultSettings) : toks \in Streams(UrlTokens, MaxUrlLen)}
    /\ nodes = <<>>
    /\ call = NewCall

ParseUrlGroup(optional, doConsumeSpaces) ==
    /\ call.op = "new"
    /\ Outcome(parseUrlGroup(ps, optional, doConsumeSpaces),
               [op |-> "parseUrlGroup", pre |-> ps, val |-> Null, optional |-> optional])
    /\ UNCHANGED nodes

NextUrl ==
    \E optional \in BOOLEAN, doConsumeSpaces \in BOOLEAN :
        ParseUrlGroup(optional, doConsumeSpaces)

SpecUrl == InitUrl /\ [][NextUrl]_vars

(***************************************************************************)
(* C2: when a parseUrlGroup call has exited, however it exits, the catcode *)
(* of '%' is 14.                                                           *)
(***************************************************************************)
C2_CatcodeRestoredOnEveryExit ==
    call.op = "parseUrlGroup" => ps.gullet.catcode = 14

(***************************************************************************)
(* SpecLex: any sequence of fetch, consume and expect calls on a fresh     *)
(* parser, up to the first ParseError.                                     *)
(***************************************************************************)
LexTokens == {LETTER_X, LBRACE, RBRACE}

InitLex ==
    /\ ps \in {NewParser(toks, DefaultSettings) : toks \in Streams(LexTokens, MaxLexLen)}
    /\ nodes = <<>>
    /\ call = [op |-> "new", n |-> 0]

Fetch ==
    /\ ~Failed(ps) /\ call.n < MaxCalls
    /\ Outcome(fetch(ps), [op |-> "fetch", n |-> call.n + 1, pre |-> ps, val |-> Null])
    /\ UNCHANGED nodes

Consume ==
    /\ ~Failed(ps) /\ call.n < MaxCalls
    /\ ps' = consume(ps)
    /\ call' = [op |-> "consume", n |-> call.n + 1, pre |-> ps]
    /\ UNCHANGED nodes

Expect(text, doConsume) ==
    /\ ~Failed(ps) /\ call.n < MaxCalls
    /\ ps' = expect(ps, text, doConsume)
    /\ call' = [op |-> "expect", n |-> call.n + 1, pre |-> ps, text |-> text,
                consume |-> doConsume]
    /\ UNCHANGED nodes

NextLex ==
    \/ Fetch
    \/ Consume
    \/ \E text \in {LETTER_X, RBRACE, EOF}, doConsume \in BOOLEAN : Expect(text, doConsume)

SpecLex == InitLex /\ [][NextLex]_vars

(***************************************************************************)
(* C7: the tokens pulled from the expander are the stream's tokens in      *)
(* order, each once; a filled lookahead slot holds the token pulled last;  *)
(* consume empties the slot and pulls nothing; fetch pulls exactly when    *)
(* the slot was empty and returns the slot's token, so a fetch on a filled *)
(* slot changes nothing; an expect that fails leaves the token it rejected *)
(* in the slot.                                                            *)
(***************************************************************************)
C7_SingleSlotLookahead ==
    /\ \A i \in 1..Len(ps.gullet.pulls) :
         ps.gullet.pulls[i].token = ExpanderToken(Toks, i)
    /\ ps.nextToken # NoToken =>
         /\ Len(ps.gullet.pulls) > 0
         /\ ps.nextToken = ps.gullet.pulls[Len(ps.gullet.pulls)].token
    /\ call.op = "consume" =>
         /\ ps.nextToken = NoToken
         /\ ps.gullet.pulls = call.pre.gullet.pulls
    /\ call.op = "fetch" =>
         /\ call.val = ps.nextToken
         /\ call.val # NoToken
         /\ IF call.pre.nextToken = NoToken
            THEN Len(ps.gullet.pulls) = Len(call.pre.gullet.pulls) + 1
            ELSE ps = call.pre
    /\ call.op = "expect" =>
         IF Failed(ps)
         THEN /\ ps.err.msg = "Expected, got"
              /\ ps.nextToken = ps.err.token
              /\ ps.nextToken # NoToken
              /\ ps.nextToken.text # call.text
         ELSE IF call.consume THEN ps.nextToken = NoToken
              ELSE ps.nextToken # NoToken /\ ps.nextToken.text = call.text

C7_Witness ==
    /\ call.op = "expect"
    /\ Failed(ps)
    /\ call.pre.nextToken = NoToken
    /\ Len(ps.gullet.pulls) = 3
    /\ ps.nextToken = Token(RBRACE, <<3, 3>>)

(***************************************************************************)
(* SpecLig: formLigatures is applied, up to twice, to a sibling list of    *)
(* text-mode nodes.                                                        *)
(***************************************************************************)
LigTexts == {HYPHEN, PRIME, BACKTICK, LETTER_X}

\* the nodes a text-mode list holds at place i: a symbol, or a group, which has no text
LigNodes(i) ==
    {[type |-> "textord", mode |-> "text", loc |-> <<i, i>>, text |-> t] : t \in LigTexts}
        \cup {[type |-> "ordgroup", mode |-> "text", loc |-> <<i, i>>, body |-> <<>>]}

RECURSIVE LigLists(_)
LigLists(n) ==
    IF n = 0 THEN {<<>>}
    ELSE LET shorter == LigLists(n - 1)
         IN  shorter \cup {Append(l, a) : l \in {u \in shorter : Len(u) = n - 1},
                                          a \in LigNodes(n)}

InitLig ==
    /\ ps = NewParser(<<>>, DefaultSettings)
    /\ nodes \in LigLists(MaxLigLen)
    /\ call = [op |-> "new", times |-> 0]

FormLigatures ==
    /\ call.times < 2
    /\ nodes' = formLigatures(nodes)
    /\ call' = [op |-> "formLigatures", times |-> call.times + 1, pre |-> nodes]
    /\ UNCHANGED ps

NextLig == FormLigatures

SpecLig == InitLig /\ [][NextLig]_vars

(***************************************************************************)
(* C8: a list formLigatures has rewritten is left unchanged by a second    *)
(* run of formLigatures.                                                   *)
(***************************************************************************)
C8_FormLigaturesIdempotent ==
    /\ (call.op = "formLigatures" /\ call.times = 2) => nodes = call.pre
    /\ call.op = "formLigatures" => formLigatures(nodes) = nodes

C8_Witness ==
    /\ call.op = "formLigatures"
    /\ call.times = 2
    /\ Len(nodes) = 2
    /\ NodeText(nodes[1]) = HYPHEN \o HYPHEN \o HYPHEN
    /\ nodes[1].loc = <<1, 3>>
    /\ NodeText(nodes[2]) = HYPHEN

(***************************************************************************)
(* SpecRegex: parseRegexGroup is called on a fresh parser with the size    *)
(* regex or with /^(?:x|x-x)$/.                                            *)
(***************************************************************************)
RegexTokens == {<<"1">>, <<".">>, <<"e">>, SPACE, HYPHEN, LETTER_X}

InitRegex ==
    /\ ps \in {NewParser(toks, DefaultSettings) : toks \in Streams(RegexTokens, MaxRegexLen)}
    /\ nodes = <<>>
    /\ call = NewCall

ParseRegexGroup(regex) ==
    /\ call.op = "new"
    /\ Outcome(parseRegexGroup(ps, regex, "size"),
               [op |-> "parseRegexGroup", pre |-> ps, val |-> Null, regex |-> regex])
    /\ UNCHANGED nodes

NextRegex == \E regex \in {"size", "pair"} : ParseRegexGroup(regex)

SpecRegex == InitRegex /\ [][NextRegex]_vars

(***************************************************************************)
(* C9: parseRegexGroup returns the longest prefix of the token texts, cut  *)
(* at a token boundary, that matches the regex, having consumed exactly    *)
(* the tokens of that prefix; when no token is accumulated it raises       *)
(* "Invalid <modeName>".                                                   *)
(***************************************************************************)
PrefixText(toks, k) == Concat(SubSeq(toks, 1, k))

\* the length in tokens of the longest matching prefix, 0 if there is none
LongestMatch(regex, toks) ==
    LET matching == {k \in 1..Len(toks) : RegexTest(regex, PrefixText(toks, k))}
    IN  IF matching = {} THEN 0
        ELSE CHOOSE k \in matching : \A j \in matching : j <= k

FuncTokens == {LETTER_X, LBRACE, RBRACE, SPACE, FRAC, TEXT, SUM, TEXTCOLOR}

FuncBudgets == {NoGreediness, <<1>>, <<2>>, <<3>>}

InitFunc ==
    /\ ps \in {NewParser(toks, DefaultSettings) : toks \in Streams(FuncTokens, MaxFuncLen)}
    /\ nodes = <<>>
    /\ call = NewCall

ParseFunction(greediness) ==
    /\ call.op \in {"new", "switchMode"}
    /\ Outcome(parseFunction(ps, Undefined, "argument", greediness),
               [op |-> "parseFunction", pre |-> ps, val |-> Null,
                greediness |-> greediness])
    /\ UNCHANGED nodes

HandleSupSubscript(name) ==
    /\ call.op = "new"
    /\ Outcome(handleSupSubscript(ps, name),
               [op |-> "handleSupSubscript", pre |-> ps, val |-> Null, name |-> name])
    /\ UNCHANGED nodes

NextFunc ==
    \/ SwitchModeText
    \/ \E greediness \in FuncBudgets : ParseFunction(greediness)
    \/ \E name \in {"superscript", "subscript"} : HandleSupSubscript(name)

SpecFunc == InitFunc /\ [][NextFunc]_vars

(***************************************************************************)
(* C11: parseFunction, given a budget g, on a function whose greediness is *)
(* at most g raises "Got function ... with no arguments as ..." on the     *)
(* function token, whatever the mode allows, with the function token the   *)
(* only token pulled; without a budget, or on a greedier function, it does *)
(* not raise that error on its own token.  The budget is 1 for the group   *)
(* after '^' or '_', and the greediness of the enclosing function for the  *)
(* first argument of a function whose arguments are parsed as groups.      *)
(***************************************************************************)
RejectedForGreediness(tok) ==
    /\ Failed(ps)
    /\ ps.err.msg = "Got function with no arguments as"
    /\ ps.err.token = tok
    /\ ps.err.arg[1] = tok.text

\* the function whose first argument is parsed as a group by parseGroup
TakesGroupFirst(text, mode) ==
    /\ IsFunction(text)
    /\ IF mode = "text" THEN functions[text].allowedInText ELSE functions[text].allowedInMath
    /\ functions[text].numOptionalArgs = 0 /\ functions[text].numArgs >= 1
    /\ ArgTypeAt(functions[text], 0) \in {"", "original", "math", "text", "hbox"}

C11_GreedinessBudget ==
    /\ call.op = "parseFunction" =>
         LET tok == ExpanderToken(Toks, 1)
             arg == ExpanderToken(Toks, 2)
         IN  /\ IsFunction(tok.text) =>
                  IF call.greediness # NoGreediness
                       /\ functions[tok.text].greediness <= call.greediness[1]
                  THEN /\ RejectedForGreediness(tok)
                       /\ Len(ps.gullet.pulls) = 1
                       /\ ps.mode = call.pre.mode
                  ELSE ~RejectedForGreediness(tok)
             /\ (call.greediness = NoGreediness /\ TakesGroupFirst(tok.text, call.pre.mode)
                   /\ IsFunction(arg.text)) =>
                  (functions[arg.text].greediness <= functions[tok.text].greediness
                     <=> (RejectedForGreediness(arg) /\ Len(ps.gullet.pulls) = 2))
    /\ call.op = "handleSupSubscript" =>
         LET k == NextNonSpace(Toks, 2)
             tok == ExpanderToken(Toks, k)
         IN  IsFunction(tok.text) =>
               (functions[tok.text].greediness <= 1
                  <=> (RejectedForGreediness(tok) /\ Len(ps.gullet.pulls) = k))

\* \frac, which text mode does not allow, rejected in text mode for its greediness
C11_Witness ==
    /\ call.op = "parseFunction"
    /\ call.pre.mode = "text"
    /\ call.greediness = <<2>>
    /\ Toks[1] = FRAC
    /\ RejectedForGreediness(ExpanderToken(Toks, 1))

(***************************************************************************)
(* SpecScript: parseAtom is called on a fresh parser, in math mode, on     *)
(* streams of bases, '^', '_', "'" and spaces.                             *)
(***************************************************************************)
ScriptTokens == {LETTER_X, CARET, UNDERSCORE, PRIME, SPACE}

InitScript ==
    /\ ps \in {NewParser(toks, DefaultSettings) :
                 toks \in Streams(ScriptTokens, MaxScriptLen)}
    /\ nodes = <<>>
    /\ call = NewCall

NextScript == ParseAtom

SpecScript == InitScript /\ [][NextScript]_vars

(***************************************************************************)
(* C12: in math mode parseAtom takes at most one superscript and at most   *)
(* one subscript, in either order; a run of primes and the '^' group that  *)
(* directly follows it make one superscript, an ordgroup of the primes and *)
(* that group; a '^' or "'" met with the superscript set raises "Double    *)
(* superscript" on that token and a '_' met with the subscript set raises  *)
(* "Double subscript" on that token.  The scripts are read off the stream, *)
(* where the group of a '^' or '_' is the next token that is not a space,  *)
(* an x, and the base is a leading x or absent.                            *)
(***************************************************************************)
RECURSIVE SkipPrimes(_, _)
SkipPrimes(toks, i) == IF i <= Len(toks) /\ toks[i] = PRIME THEN SkipPrimes(toks, i + 1) ELSE i

ScriptVerdict(kind, at, sup, sub, primes, grouped) ==
    [kind |-> kind, at |-> at, sup |-> sup, sub |-> sub, primes |-> primes,
     grouped |-> grouped]

\* reads the scripts from place i on: sup and sub tell which are set, primes
\* is the number of primes the superscript starts with and grouped tells
\* whether a '^' group follows them
RECURSIVE ScriptScan(_, _, _, _, _, _)
ScriptScan(toks, i, sup, sub, primes, grouped) ==
    LET k == NextNonSpace(toks, i)
        g == NextNonSpace(toks, k + 1)
        p == SkipPrimes(toks, k + 1)
        pg == NextNonSpace(toks, p + 1)
    IN  IF k > Len(toks) \/ toks[k] = LETTER_X
        THEN ScriptVerdict("done", k, sup, sub, primes, grouped)
        ELSE IF toks[k] = CARET
        THEN IF sup THEN ScriptVerdict("Double superscript", k, sup, sub, primes, grouped)
             ELSE IF g <= Len(toks) /\ toks[g] = LETTER_X
             THEN ScriptScan(toks, g + 1, TRUE, sub, 0, FALSE)
             ELSE ScriptVerdict("Expected group after", k, sup, sub, primes, grouped)
        ELSE IF toks[k] = UNDERSCORE
        THEN IF sub THEN ScriptVerdict("Double subscript", k, sup, sub, primes, grouped)
             ELSE IF g <= Len(toks) /\ toks[g] = LETTER_X
             THEN ScriptScan(toks, g + 1, sup, TRUE, primes, grouped)
             ELSE ScriptVerdict("Expected group after", k, sup, sub, primes, grouped)
        ELSE IF sup THEN ScriptVerdict("Double superscript", k, sup, sub, primes, grouped)
        ELSE IF p <= Len(toks) /\ toks[p] = CARET
        THEN IF pg <= Len(toks) /\ toks[pg] = LETTER_X
             THEN ScriptScan(toks, pg + 1, TRUE, sub, p - k, TRUE)
             ELSE ScriptVerdict("Expected group after", p, sup, sub, primes, grouped)
        ELSE ScriptScan(toks, p, TRUE, sub, p - k, FALSE)

Scripts == ScriptScan(Toks, IF Len(Toks) >= 1 /\ Toks[1] = LETTER_X THEN 2 ELSE 1, FALSE, FALSE, 0, FALSE)

C12_OneSuperscriptOneSubscript ==
    call.op = "parseAtom" =>
        /\ Scripts.kind = "done" =>
             /\ Returned("parseAtom")
             /\ (Scripts.sup \/ Scripts.sub) =>
                  /\ call.val.type = "supsub"
                  /\ call.val.sup # Null <=> Scripts.sup
                  /\ call.val.sub # Null <=> Scripts.sub
                  /\ Scripts.primes > 0 =>
                       /\ call.val.sup.type = "ordgroup"
                       /\ Len(call.val.sup.body)
                            = Scripts.primes + (IF Scripts.grouped THEN 1 ELSE 0)
                       /\ \A i \in 1..Len(call.val.sup.body) :
                            call.val.sup.body[i].text
                              = IF i <= Scripts.primes THEN PRIMECMD ELSE LETTER_X
             /\ ~(Scripts.sup \/ Scripts.sub) => (call.val = Null \/ call.val.type # "supsub")
        /\ Scripts.kind # "done" =>
             /\ Raised("parseAtom", Scripts.kind)
             /\ ps.err.token = ExpanderToken(Toks, Scripts.at)
        /\ Raised("parseAtom", "Double superscript") => ps.err.token.text \in {CARET, PRIME}
        /\ Raised("parseAtom", "Double subscript") => ps.err.token.text = UNDERSCORE

\* a subscript, then a prime and a '^' group that make one superscript
C12_Witness ==
    /\ Returned("parseAtom")
    /\ Toks = <<LETTER_X, UNDERSCORE, LETTER_X, PRIME, CARET, LETTER_X>>
    /\ call.val.sub # Null
    /\ Len(call.val.sup.body) = 2

\* a superscript, then a subscript
C12_WitnessSupFirst ==
    /\ Returned("parseAtom")
    /\ Toks = <<CARET, LETTER_X, UNDERSCORE, LETTER_X>>
    /\ call.val.sup # Null /\ call.val.sub # Null

(***************************************************************************)
(* SpecArgs: parseArguments is called on a fresh parser, in math mode or,  *)
(* after switchMode("text"), in text mode, for a function spec of up to    *)
(* two optional arguments and up to one mandatory argument.                *)
(***************************************************************************)
ArgsTokens == {LETTER_X, LBRACE, RBRACE, LBRACKET, RBRACKET}

ArgTypes == {"color", "size", "url", "raw", "math", "text", "hbox", "original", ""}

\* the lists of n argument types with at most one type that is not "original"
ArgTypeLists(n) ==
    {types \in [1..n -> ArgTypes] :
       \A i, j \in 1..n : (types[i] # "original" /\ types[j] # "original") => i = j}

ArgSpecs ==
    {FunctionSpec("test", numArgs, numOptionalArgs, types, 1, TRUE, TRUE, FALSE) :
       numArgs \in 0..1, numOptionalArgs \in 0..2,
       types \in UNION {ArgTypeLists(n) : n \in 0..3}} \cap
    {spec \in [type : {"test"}, numArgs : 0..1, numOptionalArgs : 0..2,
               argTypes : UNION {ArgTypeLists(n) : n \in 0..3}, greediness : {1},
               allowedInText : {TRUE}, allowedInMath : {TRUE}, infix : {FALSE},
               handler : {TRUE}] :
       Len(spec.argTypes) = spec.numArgs + spec.numOptionalArgs}

InitArgs ==
    /\ ps \in {NewParser(toks, DefaultSettings) : toks \in Streams(ArgsTokens, MaxArgsLen)}
    /\ nodes = <<>>
    /\ call = NewCall

ParseArguments(funcData) ==
    /\ call.op \in {"new", "switchMode"}
    /\ Outcome(parseArguments(ps, FOO, funcData),
               [op |-> "parseArguments", pre |-> ps, val |-> Null,
                funcData |-> funcData])
    /\ UNCHANGED nodes

NextArgs ==
    \/ SwitchModeText
    \/ \E funcData \in ArgSpecs : ParseArguments(funcData)

SpecArgs == InitArgs /\ [][NextArgs]_vars

(***************************************************************************)
(* C13: a parseArguments call that returns gives numArgs arguments, none   *)
(* null, and numOptionalArgs optional entries, in the order of the stream; *)
(* when the lookahead is not '[', a first optional argument of any type is *)
(* recorded as null and the call goes on exactly as the call for the spec  *)
(* without that argument does: same arguments, same error if any, same     *)
(* tokens consumed; a spec of optional arguments only then returns nulls   *)
(* with the first token of the stream still in the lookahead.              *)
(***************************************************************************)
WithoutFirstOptional(funcData) ==
    [funcData EXCEPT !.numOptionalArgs = funcData.numOptionalArgs - 1,
                     !.argTypes = Tail(funcData.argTypes)]

\* the number of tokens of the stream st has consumed
Consumed(st) ==
    IF st.nextToken = NoToken THEN Len(st.gullet.pulls) ELSE Len(st.gullet.pulls) - 1

\* what of the parser a caller can tell two calls apart by, the lookahead
\* being filled or not aside
ParserView(st) ==
    [mode |-> st.mode, gmode |-> st.gullet.mode, err |-> st.err,
     consumed |-> Consumed(st), groups |-> st.gullet.groups,
     catcode |-> st.gullet.catcode]

HasLoc(node) == node # Null /\ "loc" \in DOMAIN node

C13_ArgumentCounts ==
    call.op = "parseArguments" =>
        /\ ~Failed(ps) =>
             /\ Len(call.val.args) = call.funcData.numArgs
             /\ \A i \in 1..Len(call.val.args) : call.val.args[i] # Null
             /\ Len(call.val.optArgs) = call.funcData.numOptionalArgs
             /\ \A i, j \in 1..Len(call.val.optArgs) :
                  (i < j /\ HasLoc(call.val.optArgs[i]) /\ HasLoc(call.val.optArgs[j])) =>
                    call.val.optArgs[i].loc[2] < call.val.optArgs[j].loc[1]
             /\ \A i \in 1..Len(call.val.optArgs), j \in 1..Len(call.val.args) :
                  (HasLoc(call.val.optArgs[i]) /\ HasLoc(call.val.args[j])) =>
                    call.val.optArgs[i].loc[2] < call.val.args[j].loc[1]
        /\ (call.funcData.numOptionalArgs >= 1 /\ ExpanderToken(Toks, 1).text # LBRACKET) =>
             /\ call.pre.mode = "math" =>
                  LET rest == parseArguments(call.pre, FOO, WithoutFirstOptional(call.funcData))
                  IN  /\ ParserView(ps) = ParserView(rest.st)
                      /\ ~Failed(ps) =>
                           /\ call.val.args = rest.val.args
                           /\ call.val.optArgs = <<Null>> \o rest.val.optArgs
             /\ call.funcData.numArgs = 0 =>
                  /\ Returned("parseArguments")
                  /\ call.val.optArgs = [i \in 1..call.funcData.numOptionalArgs |-> Null]
                  /\ ps.nextToken = ExpanderToken(Toks, 1)
                  /\ Len(ps.gullet.pulls) = 1
                  /\ ps.mode = call.pre.mode

\* an absent optional url argument before a mandatory group
C13_Witness ==
    /\ Returned("parseArguments")
    /\ call.funcData.numOptionalArgs = 2 /\ call.funcData.numArgs = 1
    /\ call.funcData.argTypes[2] = "url"
    /\ Toks = <<LBRACKET, RBRACKET, LBRACE, RBRACE>>
    /\ call.val.optArgs[1] # Null
    /\ call.val.optArgs[2] = Null

(***************************************************************************)
(* SpecSize: parseSizeGroup is called on a fresh parser.                   *)
(***************************************************************************)
ZERO == <<"0">>

SizeTokens == {LBRACE, RBRACE, LBRACKET, RBRACKET, ZERO, <<"p">>, <<"t">>}

InitSize ==
    /\ ps \in {NewParser(toks, DefaultSettings) : toks \in Streams(SizeTokens, MaxSizeLen)}
    /\ nodes = <<>>
    /\ call = NewCall

ParseSizeGroup(optional) ==
    /\ call.op = "new"
    /\ Outcome(parseSizeGroup(ps, optional),
               [op |-> "parseSizeGroup", pre |-> ps, val |-> Null, optional |-> optional])
    /\ UNCHANGED nodes

NextSize == \E optional \in BOOLEAN : ParseSizeGroup(optional)

SpecSize == InitSize /\ [][NextSize]_vars

(***************************************************************************)
(* C14: a non-optional size group {} gives the size node that {0pt} gives, *)
(* with isBlank true instead of false; every other size node returned has  *)
(* isBlank false; an optional size group [] raises "Invalid size" on the   *)
(* empty text.                                                             *)
(***************************************************************************)
EmptyGroupFirst(toks, optional) ==
    /\ Len(toks) >= 2
    /\ toks[1] = (IF optional THEN LBRACKET ELSE LBRACE)
    /\ toks[2] = (IF optional THEN RBRACKET ELSE RBRACE)

ZeroPt == parseSizeGroup(NewParser(<<LBRACE, ZERO, <<"p">>, <<"t">>, RBRACE>>, DefaultSettings), FALSE)

ONE == <<"1">>

ZInputSizes == {<<>>} \cup {<<LBRACKET>> \o u \o <<RBRACKET>> : u \in Streams({ONE, <<"p">>, <<"t">>}, MaxZSizeLen)}

ZInputRaws == Streams({LBRACE, RBRACE, ONE, LETTER_X, HYPHEN}, MaxZRawLen)

InitZInput ==
    /\ ps \in {NewParser(<<ZINPUT>> \o size \o raw, DefaultSettings) :
                 size \in ZInputSizes, raw \in ZInputRaws}
    /\ nodes = <<>>
    /\ call = NewCall

NextZInput == SwitchModeText \/ ParseFunction(NoGreediness)

SpecZInput == InitZInput /\ [][NextZInput]_vars

(***************************************************************************)
(* C15: a \zInput that parses gives a zInput node in the mode the parser   *)
(* was in at the command, which is the parser's mode after the call; its   *)
(* width is the value of the bracketed size when the token after \zInput   *)
(* is '[' and 1.7em otherwise; its index is parseInt of the text of the    *)
(* raw argument, the text between the braces of the group that follows or  *)
(* else the single token that follows.                                     *)
(***************************************************************************)
\* the place of the first token from i on that is text
RECURSIVE FindToken(_, _, _)
FindToken(toks, i, text) ==
    IF i > Len(toks) \/ toks[i] = text THEN i ELSE FindToken(toks, i + 1, text)

\* the place of the '}' that closes the raw group whose tokens start at i
RECURSIVE RawClose(_, _, _)
RawClose(toks, i, nested) ==
    IF i > Len(toks) THEN i
    ELSE IF toks[i] = RBRACE /\ nested = 0 THEN i
    ELSE RawClose(toks, i + 1,
                  IF toks[i] = LBRACE THEN nested + 1
                  ELSE IF toks[i] = RBRACE THEN nested - 1 ELSE nested)

ZInputHasSize == Len(Toks) >= 2 /\ Toks[2] = LBRACKET

ZInputSizeText == Concat(SubSeq(Toks, 3, FindToken(Toks, 3, RBRACKET) - 1))

ZInputRawStart == IF ZInputHasSize THEN FindToken(Toks, 3, RBRACKET) + 1 ELSE 2

ZInputRawText ==
    IF Toks[ZInputRawStart] = LBRACE
    THEN Concat(SubSeq(Toks, ZInputRawStart + 1, RawClose(Toks, ZInputRawStart + 1, 0) - 1))
    ELSE Toks[ZInputRawStart]

C15_ZInputNode ==
    Returned("parseFunction") =>
        /\ call.val.type = "zInput"
        /\ call.val.mode = call.pre.mode
        /\ ps.mode = call.pre.mode /\ ps.gullet.mode = call.pre.gullet.mode
        /\ call.val.width =
             IF ZInputHasSize
             THEN [number |-> ToNumber(SizeExec(ZInputSizeText).sign,
                                       SizeExec(ZInputSizeText).magnitude),
                   unit |-> SizeExec(ZInputSizeText).unit]
             ELSE [number |-> [num |-> 17, den |-> 10], unit |-> <<"e", "m">>]
        /\ call.val.index = parseInt(ZInputRawText)

\* \zInput[1pt]{-1} in text mode
C15_Witness ==
    /\ Returned("parseFunction")
    /\ call.pre.mode = "text"
    /\ Toks = <<ZINPUT, LBRACKET, ONE, <<"p">>, <<"t">>, RBRACKET, LBRACE, HYPHEN, ONE, RBRACE>>
    /\ call.val.width = [number |-> [num |-> 1, den |-> 1], unit |-> <<"p", "t">>]
    /\ call.val.index = [nan |-> FALSE, value |-> -1]

\* \zInput{1}: the default width
C15_WitnessDefault ==
    /\ Returned("parseFunction")
    /\ Toks = <<ZINPUT, LBRACE, ONE, RBRACE>>
    /\ call.val.width.number = [num |-> 17, den |-> 10]
    /\ call.val.index = [nan |-> FALSE, value |-> 1]

(***************************************************************************)
(* SpecInfix: handleInfixNodes is applied to a sibling list of math-mode   *)
(* nodes: symbols, groups and the infix nodes of \over and \above.         *)
(***************************************************************************)
InfixNodes(i) ==
    {[type |-> "mathord", mode |-> "math", loc |-> <<i, i>>, text |-> LETTER_X],
     [type |-> "ordgroup", mode |-> "math", loc |-> <<i, i>>, body |-> <<>>,
      semisimple |-> FALSE],
     [type |-> "infix", mode |-> "math", replaceWith |-> FRAC,
      token |-> Token(OVER, <<i, i>>)],
     [type |-> "infix", mode |-> "math", replaceWith |-> ABOVEFRAC,
      size |-> [number |-> [num |-> 1, den |-> 1], unit |-> <<"p", "t">>],
      token |-> Token(ABOVE, <<i, i>>)]}

RECURSIVE InfixLists(_)
InfixLists(n) ==
    IF n = 0 THEN {<<>>}
    ELSE LET shorter == InfixLists(n - 1)
         IN  shorter \cup {Append(l, a) : l \in {u \in shorter : Len(u) = n - 1},
                                          a \in InfixNodes(n)}

InitInfix ==
    /\ ps = NewParser(<<>>, DefaultSettings)
    /\ nodes \in InfixLists(MaxInfixLen)
    /\ call = NewCall

\* the list the caller holds after the call r: the one returned, or on an
\* error the one it gave
ListAfter(r, body) == IF Failed(r.st) THEN body ELSE r.val

HandleInfixNodes ==
    /\ call.op = "new"
    /\ ps' = handleInfixNodes(ps, nodes).st
    /\ nodes' = ListAfter(handleInfixNodes(ps, nodes), nodes)
    /\ call' = [op |-> "handleInfixNodes", pre |-> nodes]

NextInfix == HandleInfixNodes

SpecInfix == InitInfix /\ [][NextInfix]_vars

(***************************************************************************)
(* C16: a list with one infix node, at place k, comes back as the one node *)
(* the replacement function builds from a numerator that is the nodes      *)
(* before k and a denominator that is the nodes after k, each in order: a  *)
(* side of one ordgroup is that ordgroup itself and any other side is a    *)
(* new ordgroup of the parser's mode around the nodes; \above hands its    *)
(* size on as the bar; a list with no infix node comes back as it was.     *)
(***************************************************************************)
InfixPlaces(body) == {i \in 1..Len(body) : body[i].type = "infix"}

IsInfixSide(node, siblings, mode) ==
    IF Len(siblings) = 1 /\ siblings[1].type = "ordgroup"
    THEN node = siblings[1]
    ELSE node = [type |-> "ordgroup", mode |-> mode, body |-> siblings]

C16_InfixRewrite ==
    call.op = "handleInfixNodes" =>
        /\ InfixPlaces(call.pre) = {} => (~Failed(ps) /\ nodes = call.pre)
        /\ \A k \in InfixPlaces(call.pre) :
             InfixPlaces(call.pre) = {k} =>
               /\ ~Failed(ps)
               /\ Len(nodes) = 1
               /\ nodes[1].type = "genfrac"
               /\ IsInfixSide(nodes[1].numer, SubSeq(call.pre, 1, k - 1), ps.mode)
               /\ IsInfixSide(nodes[1].denom, SubSeq(call.pre, k + 1, Len(call.pre)), ps.mode)
               /\ call.pre[k].replaceWith = ABOVEFRAC =>
                    nodes[1].barSize = call.pre[k].size
               /\ DOMAIN nodes[1] \subseteq {"type", "mode", "numer", "denom", "barSize"}

\* x \over {} : the numerator is wrapped, the denominator is the group itself
C16_Witness ==
    /\ call.op = "handleInfixNodes"
    /\ Len(call.pre) = 3
    /\ call.pre[1].type = "mathord"
    /\ call.pre[2].type = "infix"
    /\ call.pre[3].type = "ordgroup"
    /\ Len(nodes) = 1
    /\ nodes[1].numer.body = <<call.pre[1]>>
    /\ nodes[1].denom = call.pre[3]

(***************************************************************************)
(* SpecString: parseStringGroup is called on a fresh parser.               *)
(***************************************************************************)
StringTokens == {LETTER_X, LBRACE, RBRACE, LBRACKET, RBRACKET}

InitString ==
    /\ ps \in {NewParser(toks, DefaultSettings) :
                 toks \in Streams(StringTokens, MaxStringLen)}
    /\ nodes = <<>>
    /\ call = NewCall

ParseStringGroup(modeName, optional, raw) ==
    /\ call.op = "new"
    /\ Outcome(parseStringGroup(ps, modeName, optional, raw),
               [op |-> "parseStringGroup", pre |-> ps, val |-> Null,
                modeName |-> modeName, optional |-> optional, raw |-> raw])
    /\ UNCHANGED nodes

NextString ==
    \E modeName \in {"color", "raw"}, optional \in BOOLEAN, raw \in BOOLEAN :
        ParseStringGroup(modeName, optional, raw)

SpecString == InitString /\ [][NextString]_vars

(***************************************************************************)
(* C17: on a stream that starts with the opener, a raw parseStringGroup    *)
(* ends at the first closer that no opener of the group is waiting for,    *)
(* and a non-raw one at the first closer; the token returned has the text  *)
(* of all the tokens between the opener and that closer, in a raw group    *)
(* with every closer after its opener and as many of the one as of the     *)
(* other, and the closer is the last token consumed; when the stream ends  *)
(* before that closer the call raises "Unexpected end of input in" with    *)
(* the mode name.                                                          *)
(***************************************************************************)
\* the place of the first closer from i on met with no opener waiting,
\* nested being the number of openers that wait at i
RECURSIVE StringClose(_, _, _, _, _)
StringClose(toks, i, nested, opener, closer) ==
    IF i > Len(toks) THEN i
    ELSE IF toks[i] = closer /\ nested = 0 THEN i
    ELSE StringClose(toks, i + 1,
                     IF toks[i] = opener THEN nested + 1
                     ELSE IF toks[i] = closer THEN nested - 1 ELSE nested,
                     opener, closer)

CountOf(seq, text) == Cardinality({i \in 1..Len(seq) : seq[i] = text})

Balanced(seq, opener, closer) ==
    /\ CountOf(seq, opener) = CountOf(seq, closer)
    /\ \A j \in 1..Len(seq) :
         CountOf(SubSeq(seq, 1, j), opener) >= CountOf(SubSeq(seq, 1, j), closer)

StringOpener == IF call.optional THEN LBRACKET ELSE LBRACE

StringCloser == IF call.optional THEN RBRACKET ELSE RBRACE

StringEnd ==
    IF call.raw THEN StringClose(Toks, 2, 0, StringOpener, StringCloser)
    ELSE FindToken(Toks, 2, StringCloser)

C17_StringGroupEnd ==
    (call.op = "parseStringGroup" /\ Len(Toks) >= 1 /\ Toks[1] = StringOpener) =>
        IF StringEnd <= Len(Toks)
        THEN /\ Returned("parseStringGroup")
             /\ call.val.text = Concat(SubSeq(Toks, 2, StringEnd - 1))
             /\ call.val.loc = IF StringEnd = 2 THEN <<2, 2>> ELSE <<2, StringEnd - 1>>
             /\ Consumed(ps) = StringEnd
             /\ ps.nextToken = NoToken
             /\ call.raw => Balanced(SubSeq(Toks, 2, StringEnd - 1), StringOpener,
                                     StringCloser)
             /\ ~call.raw => \A j \in 2..(StringEnd - 1) : Toks[j] # StringCloser
        ELSE /\ Raised("parseStringGroup", "Unexpected end of input in")
             /\ ps.err.arg = call.modeName
             /\ Consumed(ps) = Len(Toks)

\* the raw group {{x}}x
C17_Witness ==
    /\ Returned("parseStringGroup")
    /\ call.raw /\ ~call.optional
    /\ Toks = <<LBRACE, LBRACE, LETTER_X, RBRACE, RBRACE, LETTER_X>>
    /\ call.val.text = <<"{", "x", "}">>

\* the non-raw group {{x}, ended by the first closer
C17_WitnessNotRaw ==
    /\ Returned("parseStringGroup")
    /\ ~call.raw /\ ~call.optional
    /\ Toks = <<LBRACE, LBRACE, LETTER_X, RBRACE, RBRACE, LETTER_X>>
    /\ call.val.text = <<"{", "x">>

(***************************************************************************)
(* SpecLimits: parseAtom is called on a fresh parser, in math mode or,     *)
(* after switchMode("text"), in text mode, on streams of operators,        *)
(* operator names, symbols and limit controls.                             *)
(***************************************************************************)
LimitsTokens ==
    {LETTER_X, SPACE, SUM, OPERATORNAME, OPERATORNAMEWITHLIMITS, LIMITS, NOLIMITS}

InitLimits ==
    /\ ps \in {NewParser(toks, DefaultSettings) : toks \in Streams(LimitsTokens, MaxLimitsLen)}
    /\ nodes = <<>>
    /\ call = NewCall

NextLimits == SwitchModeText \/ ParseAtom

SpecLimits == InitLimits /\ [][NextLimits]_vars

\* the run of limit controls and spaces from index i on: first is the index
\* of its first limit control (0 when it has none), last the text of its last
\* one, at the index of the token after the run
RECURSIVE LimitsRun(_, _, _, _)
LimitsRun(toks, i, first, last) ==
    IF i <= Len(toks) /\ toks[i] = SPACE THEN LimitsRun(toks, i + 1, first, last)
    ELSE IF i <= Len(toks) /\ toks[i] \in {LIMITS, NOLIMITS}
    THEN LimitsRun(toks, i + 1, IF first = 0 THEN i ELSE first, toks[i])
    ELSE [first |-> first, last |-> last, at |-> i]

LimitsAfter(b) == LimitsRun(b.st.gullet.toks, LookaheadIndex(b.st), 0, <<>>)

LimitsVerdict(b, run) ==
    IF b.val # Null /\ b.val.type = "op"
    THEN /\ Returned("parseAtom")
         /\ call.val = [b.val EXCEPT !.limits = (run.last = LIMITS)]
                          @@ [alwaysHandleSupSub |-> TRUE]
         /\ ps.nextToken = ExpanderToken(Toks, run.at)
    ELSE IF b.val # Null /\ b.val.type = "operatorname" /\ b.val.alwaysHandleSupSub
    THEN /\ Returned("parseAtom")
         /\ call.val = [b.val EXCEPT !.limits = (run.last = LIMITS)]
         /\ ps.nextToken = ExpanderToken(Toks, run.at)
    ELSE /\ Raised("parseAtom", "Limit controls must follow a math operator")
         /\ ps.err.token = ExpanderToken(Toks, run.first)
         /\ call.val = Null
         /\ ps.nextToken = ExpanderToken(Toks, run.first)

(***************************************************************************)
(* C18: in math mode, when limit controls follow the base parseAtom read,  *)
(* an op base, or an operatorname base with alwaysHandleSupSub, is         *)
(* returned with limits TRUE when the last control is \limits and FALSE    *)
(* when it is \nolimits, an op base also with alwaysHandleSupSub TRUE, and *)
(* all the controls are consumed; after any other base, and after no base, *)
(* parseAtom raises "Limit controls must follow a math operator" on the    *)
(* first control, which it does not consume.                               *)
(***************************************************************************)
C18_LimitControls ==
    (call.op = "parseAtom" /\ call.pre.mode = "math" /\ ~Failed(AtomBase.st)
       /\ LimitsAfter(AtomBase).first # 0)
      => LimitsVerdict(AtomBase, LimitsAfter(AtomBase))

\* \sum \limits \nolimits: the last control wins
C18_Witness ==
    /\ Returned("parseAtom")
    /\ Toks = <<SUM, LIMITS, NOLIMITS>>
    /\ call.val.type = "op"
    /\ call.val.limits = FALSE
    /\ call.val.alwaysHandleSupSub

C18_WitnessOperatorname ==
    /\ Returned("parseAtom")
    /\ Toks = <<OPERATORNAMEWITHLIMITS, LETTER_X, NOLIMITS, LIMITS>>
    /\ call.val.type = "operatorname"
    /\ call.val.limits

C18_WitnessRejected ==
    /\ Raised("parseAtom", "Limit controls must follow a math operator")
    /\ Toks = <<OPERATORNAME, LETTER_X, LIMITS>>

C18_WitnessNoBase ==
    /\ Raised("parseAtom", "Limit controls must follow a math operator")
    /\ Toks = <<LIMITS>>

(***************************************************************************)
(* SpecClose: parseGroup is called on a fresh parser, for an optional or a *)
(* mandatory group, on streams of symbols, group openers and group closers.*)
(***************************************************************************)
CloseTokens == {LETTER_X, LBRACE, RBRACE, LBRACKET, RBRACKET, BEGINGROUP, ENDGROUP}

InitClose ==
    /\ ps \in {NewParser(toks, DefaultSettings) : toks \in Streams(CloseTokens, MaxCloseLen)}
    /\ nodes = <<>>
    /\ call = NewCall

NextClose == \E optional \in BOOLEAN : ParseGroup(optional, "", FALSE)

SpecClose == InitClose /\ [][NextClose]_vars

TextAt(toks, i) == IF i <= Len(toks) THEN toks[i] ELSE EOF

RECURSIVE CloserDemand(_, _, _)
\* after a nested group whose own demand is inner: the scan goes on behind
\* the nested group's closer, or ends where the nested group is not closed
CloserDemandAfter(toks, inner, closer) ==
    IF TextAt(toks, inner.at) = inner.expected
    THEN CloserDemand(toks, inner.at + 1, closer)
    ELSE inner

\* where, from index i on, a closer is first demanded of the stream and
\* which: the group that expects closer there, or a group nested in it that
\* is not closed by its own closer
CloserDemand(toks, i, closer) ==
    IF i > Len(toks) \/ toks[i] \in {RBRACE, ENDGROUP, closer}
    THEN [at |-> i, expected |-> closer]
    ELSE IF toks[i] \in {LBRACE, BEGINGROUP}
    THEN CloserDemandAfter(toks, CloserDemand(toks, i + 1, endOfGroup[toks[i]]), closer)
    ELSE CloserDemand(toks, i + 1, closer)

OpensGroup ==
    /\ call.op = "parseGroup"
    /\ Len(Toks) > 0
    /\ IF call.optional THEN Toks[1] = LBRACKET ELSE Toks[1] \in {LBRACE, BEGINGROUP}

\* the log of beginGroup and endGroup calls is that of one group and of
\* groups nested in it
OwnPair(groups) ==
    /\ CountOf(groups, "begin") = CountOf(groups, "end")
    /\ \A j \in 1..(Len(groups) - 1) :
         CountOf(SubSeq(groups, 1, j), "begin") > CountOf(SubSeq(groups, 1, j), "end")

\* the first group of the log is never ended
NeverEnded(groups) ==
    /\ Len(groups) > 0
    /\ \A j \in 1..Len(groups) :
         CountOf(SubSeq(groups, 1, j), "begin") > CountOf(SubSeq(groups, 1, j), "end")

GroupVerdict(d) ==
    IF TextAt(Toks, d.at) = d.expected
    THEN /\ Returned("parseGroup")
         /\ call.val.type = "ordgroup"
         /\ call.val.semisimple = (Toks[1] = BEGINGROUP)
         /\ call.val.loc = <<1, d.at>>
         /\ Consumed(ps) = d.at
         /\ OwnPair(ps.gullet.groups)
         /\ CountOf(ps.gullet.groups, "begin")
              = Cardinality({n \in Descendants(call.val) : n.type = "ordgroup"})
         /\ \A n \in Descendants(call.val) :
              n.type = "ordgroup" =>
                /\ Toks[n.loc[2]] = endOfGroup[Toks[n.loc[1]]]
                /\ n.semisimple = (Toks[n.loc[1]] = BEGINGROUP)
    ELSE /\ Raised("parseGroup", "Expected, got")
         /\ ps.err.arg = <<d.expected, TextAt(Toks, d.at)>>
         /\ ps.err.token = ExpanderToken(Toks, d.at)
         /\ NeverEnded(ps.gullet.groups)

(***************************************************************************)
(* C19: a group parseGroup opens at '{' or \begingroup, or at '[' when it  *)
(* is optional, is closed by its own closer only: when the sub-expression  *)
(* of the group, or of a group nested in it, stops at another token,       *)
(* parseGroup raises "Expected '<closer>', got '<token>'" on that token    *)
(* and endGroup is never called for the group; otherwise the group ends at *)
(* its closer, beginGroup and endGroup have been called once for it and    *)
(* once for every group nested in it, properly nested, and semisimple is   *)
(* TRUE exactly on the groups \begingroup opened.                          *)
(***************************************************************************)
C19_GroupClosedByOwnCloser ==
    OpensGroup => GroupVerdict(CloserDemand(Toks, 2, endOfGroup[Toks[1]]))

\* \begingroup { x } \endgroup
C19_Witness ==
    /\ Returned("parseGroup")
    /\ Toks = <<BEGINGROUP, LBRACE, LETTER_X, RBRACE, ENDGROUP>>
    /\ call.val.semisimple
    /\ ps.gullet.groups = <<"begin", "begin", "end", "end">>

\* { x \endgroup
C19_WitnessWrongCloser ==
    /\ Raised("parseGroup", "Expected, got")
    /\ Toks = <<LBRACE, LETTER_X, ENDGROUP>>
    /\ ps.gullet.groups = <<"begin">>

\* [ x } for an optional group
C19_WitnessOptional ==
    /\ Raised("parseGroup", "Expected, got")
    /\ call.optional
    /\ Toks = <<LBRACKET, LETTER_X, RBRACE>>

(***************************************************************************)
(* C20: every token the parser pulls from the expander is pulled while the *)
(* parser's mode is the mode last given to the expander's switchMode.      *)
(***************************************************************************)
C20_PullsInExpanderMode ==
    \A i \in 1..Len(ps.gullet.pulls) : ps.gullet.pulls[i].mode = ps.gullet.pulls[i].gmode

\* a string group read to its end, of which no token but the opener was
\* pulled in the expander's mode
C20_StringGroupPulledInTextMode ==
    /\ Returned("parseStringGroup")
    /\ call.pre.mode = "math"
    /\ Len(ps.gullet.pulls) >= 3
    /\ \A i \in 2..Len(ps.gullet.pulls) :
         ps.gullet.pulls[i].mode = "text" /\ ps.gullet.pulls[i].gmode = "math"

(***************************************************************************)
(* SpecSteps: the loops of the parser, one pass at a time.  parse(),       *)
(* consumeSpaces, parseStringGroup or parseRegexGroup is entered on a      *)
(* fresh parser.  call.pc is where the method stands: "loop" at the head   *)
(* of its loop, which for parse() is the loop of parseExpression, "atom"   *)
(* at the head of the loop of the parseAtom that parseExpression called,   *)
(* "primes" at the head of the loop over the primes, "afterPrimes" behind  *)
(* that loop, "end" behind the loop of parseExpression, "done" and         *)
(* "raised" when the method has returned or thrown.  call.acc holds the    *)
(* locals of the method, and for parse() in mark the number of tokens      *)
(* consumed when parseAtom was called.                                     *)
(***************************************************************************)
StepsTokens == {LETTER_X, SPACE, LBRACE, RBRACE, CARET, UNDERSCORE, PRIME}

InitSteps ==
    /\ ps \in {NewParser(toks, DefaultSettings) : toks \in Streams(StepsTokens, MaxStepsLen)}
    /\ nodes = <<>>
    /\ call = NewCall

Pass(st, pc, acc) == [st |-> st, pc |-> pc, acc |-> acc]

Entered(op, arg, p) ==
    /\ call.op = "new"
    /\ \E q \in {p} :
         /\ ps' = q.st
         /\ call' = [op |-> op, arg |-> arg, pre |-> ps, pc |-> q.pc, acc |-> q.acc]
    /\ UNCHANGED nodes

Passed(op, pcs, p) ==
    /\ call.op = op
    /\ call.pc \in pcs
    /\ \E q \in {p} :
         /\ ps' = q.st
         /\ call' = [call EXCEPT !.pc = q.pc, !.acc = q.acc]
    /\ UNCHANGED nodes

\* lines 116-129 and 169: parse() up to the loop of parseExpression
EnterParse ==
    Entered("parse", "",
            Pass(parseBegin(ps), "loop",
                 [body |-> <<>>, base |-> Null, superscript |-> Null,
                  subscript |-> Null, primes |-> <<>>, mark |-> 0]))

expressionPassAtomKeepsLooping(a, acc) ==
    IF Failed(a.st) THEN Pass(a.st, "raised", acc)
    ELSE IF a.val = Null THEN Pass(a.st, "loop", acc)
    ELSE Pass(a.st, "loop", [acc EXCEPT !.body = Append(acc.body, a.val)])

\* lines 185-189: a is what parseAtom returned
expressionPassAtom(a, acc) ==
    IF Failed(a.st) THEN Pass(a.st, "raised", acc)
    ELSE IF a.val = Null THEN Pass(a.st, "end", acc)
    ELSE Pass(a.st, "loop", [acc EXCEPT !.body = Append(acc.body, a.val)])

\* lines 310-319: b is what the parseGroup of parseAtom returned for the
\* base; in text mode parseAtom returns it as it is
expressionPassBase(b, acc, mark) ==
    IF Failed(b.st) THEN Pass(b.st, "raised", acc)
    ELSE IF b.st.mode = "text" THEN expressionPassAtom(b, acc)
    ELSE Pass(b.st, "atom",
              [acc EXCEPT !.base = b.val, !.superscript = Null, !.subscript = Null,
                          !.primes = <<>>, !.mark = mark])

\* lines 175-185 and 310: f is what fetch returned; parse() gives no break
\* token and does not break on infix
expressionPassLex(f, acc) ==
    IF f.val.text \in endOfExpression THEN Pass(f.st, "end", acc)
    ELSE expressionPassBase(parseGroup(f.st, "atom", FALSE, NoGreediness, Undefined,
                                       "", FALSE),
                            acc, Consumed(f.st))

\* lines 170-185: a pass of the loop of parseExpression up to the loop of
\* the parseAtom it calls
expressionPass(st, acc) ==
    expressionPassLex(fetch(IF st.mode = "math" THEN consumeSpaces(st) ELSE st), acc)

ExpressionPass == Passed("parse", {"loop"}, expressionPass(ps, call.acc))

\* lines 375-378: h is the group behind a caret that follows the primes,
\* with val Null when no caret follows
primesPassGroup(h, acc) ==
    IF Failed(h.st) THEN Pass(h.st, "raised", acc)
    ELSE Pass(h.st, "atom",
              [acc EXCEPT !.superscript =
                              [type |-> "ordgroup", mode |-> h.st.mode,
                               body |-> IF h.val = Null THEN acc.primes
                                        ELSE Append(acc.primes, h.val)],
                          !.primes = <<>>])

\* lines 349, 355 and 375: h is what handleSupSubscript returned
atomPassScript(h, acc, pc, field) ==
    IF pc = "afterPrimes" THEN primesPassGroup(h, acc)
    ELSE IF Failed(h.st) THEN Pass(h.st, "raised", acc)
    ELSE Pass(h.st, "atom", [acc EXCEPT ![field] = h.val])

\* lines 344-355: the local a caret or an underscore sets
ScriptName(text) == IF text = CARET THEN "superscript" ELSE "subscript"

\* lines 328-399 at the head of the loop of parseAtom, lines 374-378 behind
\* the loop over the primes: f is what fetch returned; when the loop of
\* parseAtom is left, parseAtom returns to the pass of parseExpression
atomPassLex(f, acc, pc) ==
    IF pc = "afterPrimes" /\ f.val.text # CARET
    THEN primesPassGroup(Ret(f.st, Null), acc)
    ELSE IF pc = "atom" /\ f.val.text \in {LIMITS, NOLIMITS}
    THEN IF acceptsLimits(acc.base)
         THEN Pass(consume(f.st), "atom",
                   [acc EXCEPT !.base = withLimits(acc.base, f.val.text)])
         ELSE Pass(Throw(f.st, "Limit controls must follow a math operator", <<>>, f.val),
                   "raised", acc)
    ELSE IF f.val.text \in {CARET, UNDERSCORE}
    THEN IF pc = "atom" /\ acc[ScriptName(f.val.text)] # Null
         THEN Pass(Throw(f.st, IF f.val.text = CARET THEN "Double superscript"
                               ELSE "Double subscript", <<>>, f.val),
                   "raised", acc)
         ELSE atomPassScript(handleSupSubscript(f.st, ScriptName(f.val.text)), acc, pc,
                             ScriptName(f.val.text))
    ELSE IF f.val.text = PRIME
    THEN IF acc.superscript # Null
         THEN Pass(Throw(f.st, "Double superscript", <<>>, f.val), "raised", acc)
         ELSE Pass(consume(f.st), "primes",
                   [acc EXCEPT !.primes = <<[type |-> "textord", mode |-> f.st.mode,
                                             text |-> PRIMECMD]>>])
    ELSE expressionPassAtom(parseAtomEnd(AtomParts(f.st, acc.base, acc.superscript,
                                                   acc.subscript)),
                            acc)

\* lines 321-326 and 374: spaces are eaten at the head of the loop only
atomPass(st, acc, pc) ==
    atomPassLex(fetch(IF pc = "atom" THEN consumeSpaces(st) ELSE st), acc, pc)

AtomPass == Passed("parse", {"atom", "afterPrimes"}, atomPass(ps, call.acc, call.pc))

\* lines 367-371: one pass of the loop over the primes, f what fetch returned
primesPassLex(f, acc) ==
    IF f.val.text = PRIME
    THEN Pass(consume(f.st), "primes",
              [acc EXCEPT !.primes = Append(acc.primes, acc.primes[1])])
    ELSE Pass(f.st, "afterPrimes", acc)

PrimesPass == Passed("parse", {"primes"}, primesPassLex(fetch(ps), call.acc))

\* lines 190-193 and 131-140: r is what parse() returns from behind the loop
expressionEnd(r) == Pass(r.st, IF Failed(r.st) THEN "raised" ELSE "done", r.val)

ParseEnd ==
    Passed("parse", {"end"},
           expressionEnd(parseExpectEof(parseExpressionEnd(Ret(ps, call.acc.body)))))

\* consumeSpaces is entered
EnterSpaces == Entered("consumeSpaces", "", Pass(ps, "loop", <<>>))

\* lines 584-586: one pass of the loop of consumeSpaces, f what fetch returned
spacesPassLex(f) ==
    IF f.val.text = SPACE THEN Pass(consume(f.st), "loop", <<>>)
    ELSE Pass(f.st, "done", <<>>)

SpacesPass == Passed("consumeSpaces", {"loop"}, spacesPassLex(fetch(ps)))

\* lines 612-616: ft is what the fetch behind the opener returned
stringEnterFirst(ft, outerMode, raw) ==
    Pass(ft.st, "loop",
         [outerMode |-> outerMode, raw |-> raw, firstToken |-> ft.val,
          lastToken |-> ft.val, str |-> <<>>, nested |-> 0])

\* lines 611-612: opened is the parser after the expect of the opener
stringEnterOpen(opened, outerMode, raw) ==
    IF Failed(opened) THEN Pass(opened, "raised", Null)
    ELSE stringEnterFirst(fetch(opened), outerMode, raw)

\* lines 598-611, for a group that is not optional: b is what fetch returned
stringEnter(b, raw) ==
    IF b.val.text # LBRACE /\ raw /\ b.val.text # EOF /\ HasNonBraceChar(b.val.text)
    THEN Pass(consume(b.st), "done", b.val)
    ELSE stringEnterOpen(expect([b.st EXCEPT !.mode = "text"], LBRACE, TRUE),
                         b.st.mode, raw)

EnterString(raw) == Entered("parseStringGroup", IF raw THEN "raw" ELSE "", stringEnter(fetch(ps), raw))

\* lines 636-638: closed is the parser after the expect of the closer
stringEnd(closed, acc) ==
    IF Failed(closed) THEN Pass(closed, "raised", Null)
    ELSE Pass([closed EXCEPT !.mode = acc.outerMode], "done",
              TokenRange(acc.firstToken, acc.lastToken, acc.str))

\* lines 618-638: one pass of the loop of parseStringGroup, f what fetch
\* returned; behind the loop the closer is expected and the token returned
stringPassLex(f, acc) ==
    IF f.val.text # RBRACE \/ (acc.raw /\ acc.nested > 0)
    THEN IF f.val.text = EOF
         THEN Pass(Throw(f.st, "Unexpected end of input in", "color",
                         TokenRange(acc.firstToken, acc.lastToken, acc.str)),
                   "raised", Null)
         ELSE Pass(consume(f.st), "loop",
                   [acc EXCEPT !.nested = IF f.val.text = LBRACE THEN acc.nested + 1
                                          ELSE IF f.val.text = RBRACE THEN acc.nested - 1
                                          ELSE acc.nested,
                               !.lastToken = f.val,
                               !.str = acc.str \o f.val.text])
    ELSE stringEnd(expect(f.st, RBRACE, TRUE), acc)

StringPass == Passed("parseStringGroup", {"loop"}, stringPassLex(fetch(ps), call.acc))

\* lines 650-654: ft is what the first fetch returned
regexEnter(ft, outerMode) ==
    Pass(ft.st, "loop",
         [outerMode |-> outerMode, firstToken |-> ft.val, lastToken |-> ft.val,
          str |-> <<>>])

EnterRegex ==
    Entered("parseRegexGroup", "",
            regexEnter(fetch([ps EXCEPT !.mode = "text"]), ps.mode))

\* lines 655-668: one pass of the loop of parseRegexGroup on the size regex,
\* f what fetch returned; behind the loop the token is returned
regexPassLex(f, acc) ==
    IF f.val.text # EOF /\ RegexTest("size", acc.str \o f.val.text)
    THEN Pass(consume(f.st), "loop",
              [acc EXCEPT !.lastToken = f.val, !.str = acc.str \o f.val.text])
    ELSE IF acc.str = <<>>
    THEN Pass(Throw(f.st, "Invalid", <<"size", acc.firstToken.text>>, acc.firstToken),
              "raised", Null)
    ELSE Pass([f.st EXCEPT !.mode = acc.outerMode], "done",
              TokenRange(acc.firstToken, acc.lastToken, acc.str))

RegexPass == Passed("parseRegexGroup", {"loop"}, regexPassLex(fetch(ps), call.acc))

NextSteps ==
    \/ EnterParse \/ ExpressionPass \/ AtomPass \/ PrimesPass \/ ParseEnd
    \/ EnterSpaces \/ SpacesPass
    \/ \E raw \in BOOLEAN : EnterString(raw)
    \/ StringPass
    \/ EnterRegex \/ RegexPass

SpecSteps == InitSteps /\ [][NextSteps]_vars

\* what the method entered returns or throws when it is run as a whole
Whole ==
    CASE call.op = "parse" -> parse(call.pre)
      [] call.op = "consumeSpaces" -> Ret(consumeSpaces(call.pre), <<>>)
      [] call.op = "parseStringGroup" ->
           parseStringGroup(call.pre, "color", FALSE, call.arg = "raw")
      [] call.op = "parseRegexGroup" -> parseRegexGroup(call.pre, "size", "size")

Ended == call.op # "new" /\ call.pc \in {"done", "raised"}

\* the passes end where the method run as a whole ends
EndsAsWhole ==
    Ended => /\ ps = Whole.st
             /\ Failed(ps) <=> call.pc = "raised"
             /\ call.pc = "done" => call.acc = Whole.val
             /\ call.pc = "raised" => Whole.val = Null

\* a pass that returns to the head of its loop consumes a token: the loops
\* of consumeSpaces, parseStringGroup, parseRegexGroup and parseAtom and the
\* loop over the primes in one step, the loop of parseExpression by the time
\* parseAtom has returned a node
PassConsumes ==
    /\ (call.op # "new" /\ call.pc \in {"loop", "atom", "primes"}
          /\ call'.pc \in {call.pc, "primes"})
         => Consumed(ps') > Consumed(ps)
    /\ (call.op = "parse" /\ call.pc \in {"atom", "afterPrimes"} /\ call'.pc = "loop")
         => Consumed(ps') > call.acc.mark

\* the places of a method that a pass leaves from: a method that has
\* neither returned nor thrown stands at one of them
PassHeads ==
    {<<"parse", "loop">>, <<"parse", "atom">>, <<"parse", "primes">>,
     <<"parse", "afterPrimes">>, <<"parse", "end">>, <<"consumeSpaces", "loop">>,
     <<"parseStringGroup", "loop">>, <<"parseRegexGroup", "loop">>}

CanPass == (call.op # "new" /\ ~Ended) => <<call.op, call.pc>> \in PassHeads

\* the places in the order the passes go through them when no token is
\* consumed; parseAtom stands above the head of the loop of parseExpression
\* until it has consumed a token, and below it from then on
PcRank(st, c) ==
    IF c.op = "new" THEN 0
    ELSE CASE c.pc = "primes" -> 1
           [] c.pc = "afterPrimes" -> 2
           [] c.pc = "atom" -> IF Consumed(st) > c.acc.mark THEN 3 ELSE 5
           [] c.pc = "loop" -> 4
           [] c.pc = "end" -> 6
           [] c.pc \in {"done", "raised"} -> 7

\* what every pass makes greater: the tokens consumed, then the place
Measure(st, c) == 8 * Consumed(st) + PcRank(st, c)

EveryPassAdvances == Measure(ps', call') > Measure(ps, call)

MeasureBounded == Measure(ps, call) <= 8 * (Len(Toks) + 1) + 7

C21_WitnessRaised ==
    /\ call.op = "parse"
    /\ call.pc = "raised"
    /\ Toks = <<LETTER_X, CARET, LETTER_X, CARET>>
    /\ ps.err.msg = "Double superscript"

====
